---------------------------- MODULE Spec2Model ----------------------------
(***************************************************************************)
(* Model of the schema-inference and DDL pipeline of model_langgraph:      *)
(* detect_primary_keys, detect_foreign_keys and infer_column_type          *)
(* (analyzer.py), compute_metrics, classify_columns, materialize_bronze,    *)
(* materialize_silver and materialize_gold (layers.py),                    *)
(* generate_create_statements (sql_generator.py) and main (cli.py).        *)
(*                                                                         *)
(* A DataFrame is a sequence of columns; a column is a record              *)
(* [name, dtype, vals] whose vals is the sequence of its cells, one per    *)
(* row.  A dict is the sequence of its entries in insertion order.         *)
(* Fractions are kept exact as records [n, d] (n / d) and thresholds are   *)
(* percentages, so 0.7 is 70 and "overlap >= threshold" is                 *)
(* 100 * n >= threshold * d.                                               *)
(***************************************************************************)
EXTENDS Integers, Sequences, FiniteSets, TLC

VARIABLES
    pc,          \* position in the pipeline
    tables,      \* the input table set: sequence of [name, df]
    pks,         \* detect_primary_keys result: table name -> column name or None
    min_overlap, \* the min_overlap argument of the last detect_foreign_keys call
    fks,         \* detect_foreign_keys result: sequence of edges, insertion order
    classified,  \* classify_columns result: table -> column -> [layer, reason]
    cfg,         \* arguments of the last generate_create_statements call
    stmts,       \* the statement list of the last generate_create_statements call
    files,       \* the files written so far: path -> content
    args,        \* the parsed command line of main
    ran          \* the calls main has made after analyze, in order

vars == <<pc, tables, pks, min_overlap, fks, classified, cfg, stmts, files, args, ran>>

-----------------------------------------------------------------------------
(* Bounds *)

MaxTables == 3
MaxSel == 2

-----------------------------------------------------------------------------
(* Generic helpers *)

None == "<None>"

Max(a, b) == IF a >= b THEN a ELSE b

Range(s) == {s[i] : i \in 1..Len(s)}

RECURSIVE Flatten(_)
Flatten(ss) == IF ss = <<>> THEN <<>> ELSE Head(ss) \o Flatten(Tail(ss))

RECURSIVE SelectSeqIdx(_, _, _)
\* the indices i of s, ascending, with keep[i]
SelectSeqIdx(n, keep, i) ==
    IF i > n THEN <<>>
    ELSE (IF keep[i] THEN <<i>> ELSE <<>>) \o SelectSeqIdx(n, keep, i + 1)

\* a / b as an exact fraction
Frac(a, b) == [n |-> a, d |-> b]
FracLess(x, y) == x.n * y.d < y.n * x.d
FracEq(x, y) == x.n * y.d = y.n * x.d
\* x < p / 100 and x > p / 100
FracBelowPct(x, p) == 100 * x.n < p * x.d
FracAbovePct(x, p) == 100 * x.n > p * x.d

-----------------------------------------------------------------------------
(* Strings: the text of every name the model uses, and the str methods     *)
(* the code applies to them.                                               *)

Chars(s) ==
    CASE s = "id" -> <<"i","d">>
      [] s = "ID" -> <<"I","D">>
      [] s = "_id" -> <<"_","i","d">>
      [] s = "customer_id" -> <<"c","u","s","t","o","m","e","r","_","i","d">>
      [] s = "order_id" -> <<"o","r","d","e","r","_","i","d">>
      [] s = "name" -> <<"n","a","m","e">>
      [] s = "label" -> <<"l","a","b","e","l">>
      [] s = "code" -> <<"c","o","d","e">>
      [] s = "ref" -> <<"r","e","f">>
      [] s = "qty" -> <<"q","t","y">>
      [] s = "note" -> <<"n","o","t","e">>
      [] s = "flag" -> <<"f","l","a","g">>
      [] s = "orders_key" -> <<"o","r","d","e","r","s","_","k","e","y">>
      [] s = "customers" -> <<"c","u","s","t","o","m","e","r","s">>
      [] s = "orders" -> <<"o","r","d","e","r","s">>
      [] s = "Items" -> <<"I","t","e","m","s">>
      [] s = "parts" -> <<"p","a","r","t","s">>
      [] s = "int64" -> <<"i","n","t","6","4">>
      [] s = "float64" -> <<"f","l","o","a","t","6","4">>
      [] s = "bool" -> <<"b","o","o","l">>
      [] s = "object" -> <<"o","b","j","e","c","t">>
      [] s = "category" -> <<"c","a","t","e","g","o","r","y">>
      [] s = "datetime64[ns]" -> <<"d","a","t","e","t","i","m","e","6","4","[","n","s","]">>
      [] s = "int" -> <<"i","n","t">>
      [] s = "float" -> <<"f","l","o","a","t">>
      [] s = "datetime" -> <<"d","a","t","e","t","i","m","e">>
      [] s = "products" -> <<"p","r","o","d","u","c","t","s">>
      [] s = "order_items" -> <<"o","r","d","e","r","_","i","t","e","m","s">>
      [] s = "customer" -> <<"c","u","s","t","o","m","e","r">>
      [] s = "sales" -> <<"s","a","l","e","s">>
      [] s = "product_id" -> <<"p","r","o","d","u","c","t","_","i","d">>
      [] s = "quantity" -> <<"q","u","a","n","t","i","t","y">>
      [] s = "unit_price" -> <<"u","n","i","t","_","p","r","i","c","e">>
      [] s = "date" -> <<"d","a","t","e">>
      [] s = "time" -> <<"t","i","m","e">>
      [] s = "description" -> <<"d","e","s","c","r","i","p","t","i","o","n">>
      [] s = "long text/blob" -> <<"l","o","n","g"," ","t","e","x","t","/","b","l","o","b">>
      [] s = "long_text_blob -> keep bronze" -> <<"l","o","n","g","_","t","e","x","t","_","b","l","o","b"," ","-",">"," ","k","e","e","p"," ","b","r","o","n","z","e">>
      [] s = "primary key -> silver (conformed)" -> <<"p","r","i","m","a","r","y"," ","k","e","y"," ","-",">"," ","s","i","l","v","e","r"," ","(","c","o","n","f","o","r","m","e","d",")">>
      [] s = "foreign key -> silver (joinable)" -> <<"f","o","r","e","i","g","n"," ","k","e","y"," ","-",">"," ","s","i","l","v","e","r"," ","(","j","o","i","n","a","b","l","e",")">>
      [] s = "numeric measure -> gold" -> <<"n","u","m","e","r","i","c"," ","m","e","a","s","u","r","e"," ","-",">"," ","g","o","l","d">>
      [] s = "cleanable -> silver" -> <<"c","l","e","a","n","a","b","l","e"," ","-",">"," ","s","i","l","v","e","r">>
      [] s = "default: keep bronze" -> <<"d","e","f","a","u","l","t",":"," ","k","e","e","p"," ","b","r","o","n","z","e">>

LowerChar(c) ==
    CASE c = "I" -> "i"
      [] c = "D" -> "d"
      [] OTHER -> c

\* str.lower(), on the characters
Lower(cs) == [i \in 1..Len(cs) |-> LowerChar(cs[i])]

\* str.endswith / str.startswith / the `in` operator on strings
EndsWith(cs, suf) ==
    /\ Len(suf) <= Len(cs)
    /\ SubSeq(cs, Len(cs) - Len(suf) + 1, Len(cs)) = suf
StartsWith(cs, pre) ==
    /\ Len(pre) <= Len(cs)
    /\ SubSeq(cs, 1, Len(pre)) = pre
Contains(cs, sub) ==
    \E i \in 0..(Len(cs) - Len(sub)) : SubSeq(cs, i + 1, i + Len(sub)) = sub

-----------------------------------------------------------------------------
(* Cells and columns *)

\* NaN / None cell, a number (1 == 1.0 == True), a string of `len` characters
NA == [kind |-> "nan", v |-> 0, len |-> 0]
Num(v) == [kind |-> "num", v |-> v, len |-> 0]
Str(v, len) == [kind |-> "str", v |-> v, len |-> len]

Col(name, dtype, vals) == [name |-> name, dtype |-> dtype, vals |-> vals]

ColumnNames(df) == [i \in 1..Len(df) |-> df[i].name]

\* df[col]
Column(df, col) == df[CHOOSE i \in 1..Len(df) : df[i].name = col]

\* set(s.dropna().unique())
DropnaUnique(s) == {s.vals[i] : i \in 1..Len(s.vals)} \ {NA}

\* len(df): every column of a frame has the same number of rows
RowCount(df) == IF df = <<>> THEN 0 ELSE Len(df[1].vals)

TableNamesOf(tbls) == [i \in 1..Len(tbls) |-> tbls[i].name]

\* tables[t]
Frame(tbls, t) == tbls[CHOOSE i \in 1..Len(tbls) : tbls[i].name = t].df

-----------------------------------------------------------------------------
(* analyzer.py *)

infer_column_type(series) ==
    CASE series.dtype = "int64" -> "INTEGER"
      [] series.dtype = "float64" -> "FLOAT"
      [] series.dtype = "bool" -> "BOOLEAN"
      [] series.dtype = "datetime64[ns]" -> "TIMESTAMP"
      [] OTHER -> "TEXT"

\* s.dropna().nunique() / max(1, len(s))
unique_frac(s) == Frac(Cardinality(DropnaUnique(s)), Max(1, Len(s.vals)))

\* col.lower() == 'id' or col.lower().endswith('_id')
NameLooksLikeId(col) ==
    \/ Lower(Chars(col)) = Chars("id")
    \/ EndsWith(Lower(Chars(col)), Chars("_id"))

\* unique_frac > 0.9 and s.dropna().dtype != object
UniqueNonObject(s) == FracAbovePct(unique_frac(s), 90) /\ s.dtype # "object"

\* fault: the name rule is dropped, only the uniqueness rule makes a candidate
CandidatesOfColumn_UniqueOnly(s) ==
    IF UniqueNonObject(s) THEN <<[col |-> s.name, frac |-> unique_frac(s)]>> ELSE <<>>

\* the (col, unique_frac) pairs one column appends, in order
CandidatesOfColumn(s) ==
    (IF NameLooksLikeId(s.name) THEN <<[col |-> s.name, frac |-> unique_frac(s)]>> ELSE <<>>)
    \o (IF UniqueNonObject(s) THEN <<[col |-> s.name, frac |-> unique_frac(s)]>> ELSE <<>>)

Candidates(df) == Flatten([i \in 1..Len(df) |-> CandidatesOfColumn(df[i])])

\* insert x after every element whose key -frac is not larger (stable)
RECURSIVE InsertByFracDesc(_, _)
InsertByFracDesc(sorted, x) ==
    IF sorted = <<>> THEN <<x>>
    ELSE IF FracLess(Head(sorted).frac, x.frac)
         THEN <<x>> \o sorted
         ELSE <<Head(sorted)>> \o InsertByFracDesc(Tail(sorted), x)

RECURSIVE SortCandidatesFrom(_, _)
SortCandidatesFrom(sorted, rest) ==
    IF rest = <<>> THEN sorted
    ELSE SortCandidatesFrom(InsertByFracDesc(sorted, Head(rest)), Tail(rest))

\* candidates.sort(key=lambda x: -x[1])
SortCandidates(candidates) == SortCandidatesFrom(<<>>, candidates)

\* fault: the least-ranked candidate is taken (candidates[-1])
PrimaryKeyOf_Last(df) ==
    IF Candidates(df) # <<>>
    THEN SortCandidates(Candidates(df))[Len(Candidates(df))].col
    ELSE None

PrimaryKeyOf(df) ==
    IF Candidates(df) # <<>> THEN SortCandidates(Candidates(df))[1].col ELSE None

detect_primary_keys(tbls) ==
    [t \in Range(TableNamesOf(tbls)) |-> PrimaryKeyOf(Frame(tbls, t))]

\* pks.get(t)
PkGet(pk_map, t) == IF t \in DOMAIN pk_map THEN pk_map[t] ELSE None

\* the keys of pk_values, in insertion order
PkValueTables(tbls, pk_map) ==
    LET names == TableNamesOf(tbls)
        keep == [i \in 1..Len(names) |->
                    /\ PkGet(pk_map, names[i]) # None
                    /\ PkGet(pk_map, names[i]) \in Range(ColumnNames(tbls[i].df))]
        idx == SelectSeqIdx(Len(names), keep, 1)
    IN [k \in 1..Len(idx) |-> names[idx[k]]]

\* pk_values[t]
PkValues(tbls, pk_map, t) == DropnaUnique(Column(Frame(tbls, t), pk_map[t]))

TypesCompatible(col_type, ref_type) ==
    \/ col_type = ref_type
    \/ col_type \in {"INTEGER", "FLOAT"} /\ ref_type \in {"INTEGER", "FLOAT"}

\* the naming heuristic of the threshold
LooksLikeForeignKey(col, ref_table, ref_pk) ==
    LET low_col == Lower(Chars(col))
    IN \/ EndsWith(low_col, Chars("_id"))
       \/ Contains(low_col, Lower(Chars(ref_table)))
       \/ low_col = Lower(Chars(ref_pk))

Threshold(m, col, ref_table, ref_pk) ==
    IF LooksLikeForeignKey(col, ref_table, ref_pk) THEN 50 ELSE m

\* fault: one common value is enough
MinCommon_One(n) == Max(1, (5 * n) \div 100)

\* max(2, int(0.05 * len(vals)))
MinCommon(n) == Max(2, (5 * n) \div 100)

\* fault: the comparison is turned around (overlap <= threshold)
OverlapAtLeast_AtMost(n_common, n_vals, threshold) ==
    100 * n_common <= threshold * Max(1, n_vals)

\* overlap >= threshold, with overlap = len(common) / max(1, len(vals))
OverlapAtLeast(n_common, n_vals, threshold) ==
    100 * n_common >= threshold * Max(1, n_vals)

\* the body of the inner loop: does (t, s) take ref_table as its target
Accepts(tbls, pk_map, m, t, s, ref_table) ==
    LET vals == DropnaUnique(s)
        ref_pk == PkGet(pk_map, ref_table)
        common == vals \cap PkValues(tbls, pk_map, ref_table)
    IN /\ ref_table # t
       /\ ref_pk # None
       /\ common # {}
       /\ OverlapAtLeast(Cardinality(common), Cardinality(vals),
                         Threshold(m, s.name, ref_table, ref_pk))
       /\ Cardinality(common) >= MinCommon(Cardinality(vals))
       /\ TypesCompatible(infer_column_type(s),
                          infer_column_type(Column(Frame(tbls, ref_table), ref_pk)))

\* fault: the edge names the source column as the referenced column
RECURSIVE FirstAccepted_SourceColumn(_, _, _, _, _, _)
FirstAccepted_SourceColumn(tbls, pk_map, m, t, s, refs) ==
    IF refs = <<>> THEN <<>>
    ELSE IF Accepts(tbls, pk_map, m, t, s, Head(refs))
         THEN <<[table |-> t, col |-> s.name,
                 ref_table |-> Head(refs), ref_col |-> s.name]>>
         ELSE FirstAccepted_SourceColumn(tbls, pk_map, m, t, s, Tail(refs))

\* fault: the loop has no break, the last accepted table of refs wins
RECURSIVE FirstAccepted_NoBreak(_, _, _, _, _, _)
FirstAccepted_NoBreak(tbls, pk_map, m, t, s, refs) ==
    IF refs = <<>> THEN <<>>
    ELSE LET later == FirstAccepted_NoBreak(tbls, pk_map, m, t, s, Tail(refs))
         IN IF later # <<>> THEN later
            ELSE IF Accepts(tbls, pk_map, m, t, s, Head(refs))
                 THEN <<[table |-> t, col |-> s.name,
                         ref_table |-> Head(refs), ref_col |-> PkGet(pk_map, Head(refs))]>>
                 ELSE <<>>

\* the inner loop with its break: the first accepted table of refs, if any
RECURSIVE FirstAccepted(_, _, _, _, _, _)
FirstAccepted(tbls, pk_map, m, t, s, refs) ==
    IF refs = <<>> THEN <<>>
    ELSE IF Accepts(tbls, pk_map, m, t, s, Head(refs))
         THEN <<[table |-> t, col |-> s.name,
                 ref_table |-> Head(refs), ref_col |-> PkGet(pk_map, Head(refs))]>>
         ELSE FirstAccepted(tbls, pk_map, m, t, s, Tail(refs))

\* fault: the table's own PK column is not skipped
EdgesOfColumn_OwnPkNotSkipped(tbls, pk_map, m, t, s) ==
    IF DropnaUnique(s) = {} THEN <<>>
    ELSE FirstAccepted(tbls, pk_map, m, t, s, PkValueTables(tbls, pk_map))

\* what one (t, col) adds to fks
EdgesOfColumn(tbls, pk_map, m, t, s) ==
    IF PkGet(pk_map, t) = s.name THEN <<>>
    ELSE IF DropnaUnique(s) = {} THEN <<>>
    ELSE FirstAccepted(tbls, pk_map, m, t, s, PkValueTables(tbls, pk_map))

EdgesOfTable(tbls, pk_map, m, t) ==
    LET df == Frame(tbls, t)
    IN Flatten([i \in 1..Len(df) |-> EdgesOfColumn(tbls, pk_map, m, t, df[i])])

detect_foreign_keys(tbls, pk_map, m) ==
    Flatten([i \in 1..Len(tbls) |-> EdgesOfTable(tbls, pk_map, m, tbls[i].name)])

\* analysis['types']
AnalysisTypes(tbls) ==
    [t \in Range(TableNamesOf(tbls)) |->
        [c \in Range(ColumnNames(Frame(tbls, t))) |->
            infer_column_type(Column(Frame(tbls, t), c))]]

-----------------------------------------------------------------------------
(* layers.py: compute_metrics, classify_columns *)

RECURSIVE DecimalLen(_)
DecimalLen(v) == IF v < 10 THEN 1 ELSE 1 + DecimalLen(v \div 10)

\* astype(str) of one cell: the string and its length
AsStr(cell) == IF cell.kind = "str" THEN cell ELSE Str(cell.v, DecimalLen(cell.v))

Dropna(vals) == SelectSeq(vals, LAMBDA x : x # NA)

\* s.head(5)
Head5(vals) == SubSeq(vals, 1, IF Len(vals) < 5 THEN Len(vals) ELSE 5)

\* s.dropna().astype(str).head(5).tolist()
Sample(s) == LET kept == Head5(Dropna(s.vals)) IN [i \in 1..Len(kept) |-> AsStr(kept[i])]

\* float(s.isna().mean()); NaN for a column without rows, kept as 0 / 0
null_pct(s) == Frac(Cardinality({i \in 1..Len(s.vals) : s.vals[i] = NA}), Len(s.vals))

compute_metrics(tbls) ==
    [t \in Range(TableNamesOf(tbls)) |->
        [c \in Range(ColumnNames(Frame(tbls, t))) |->
            LET s == Column(Frame(tbls, t), c)
            IN [null_pct |-> null_pct(s),
                unique_frac |-> unique_frac(s),
                dtype |-> s.dtype,
                sample |-> Sample(s)]]]

\* '; '.join(reason)
RECURSIVE JoinReasons(_)
JoinReasons(reason) ==
    IF reason = <<>> THEN ""
    ELSE IF Len(reason) = 1 THEN reason[1]
    ELSE reason[1] \o "; " \o JoinReasons(Tail(reason))

\* (t, col) in fks
IsFkSource(fk_seq, t, col) == \E i \in 1..Len(fk_seq) : fk_seq[i].table = t /\ fk_seq[i].col = col

DtypeHasAny(dtype, words) == \E w \in words : Contains(Chars(dtype), Chars(w))

\* fault: the distinct fraction is compared with 0.01
IsLongTextBlob_Below1Pct(m) ==
    /\ StartsWith(Chars(m.dtype), Chars("object"))
    /\ FracBelowPct(m.unique_frac, 1)
    /\ \E i \in 1..Len(m.sample) : m.sample[i].len > 200

\* the condition of the first branch of classify_columns
IsLongTextBlob(m) ==
    /\ StartsWith(Chars(m.dtype), Chars("object"))
    /\ FracBelowPct(m.unique_frac, 2)
    /\ \E i \in 1..Len(m.sample) : m.sample[i].len > 200

\* fault: the final else branch records no reason
ClassifyColumn_SilentDefault(pk_map, fk_seq, t, col, m) ==
    IF IsLongTextBlob(m)
    THEN [layer |-> "bronze", reason |-> JoinReasons(<<"long_text_blob -> keep bronze">>)]
    ELSE IF PkGet(pk_map, t) = col
    THEN [layer |-> "silver", reason |-> JoinReasons(<<"primary key -> silver (conformed)">>)]
    ELSE IF IsFkSource(fk_seq, t, col)
    THEN [layer |-> "silver", reason |-> JoinReasons(<<"foreign key -> silver (joinable)">>)]
    ELSE IF /\ FracBelowPct(m.null_pct, 50)
            /\ DtypeHasAny(m.dtype, {"int", "float", "bool", "datetime", "object"})
    THEN IF DtypeHasAny(m.dtype, {"int", "float"}) /\ FracBelowPct(m.unique_frac, 20)
         THEN [layer |-> "gold", reason |-> JoinReasons(<<"numeric measure -> gold">>)]
         ELSE [layer |-> "silver", reason |-> JoinReasons(<<"cleanable -> silver">>)]
    ELSE [layer |-> "bronze", reason |-> JoinReasons(<<>>)]

\* fault: the PK branch is tested before the long text branch
ClassifyColumn_PkFirst(pk_map, fk_seq, t, col, m) ==
    IF PkGet(pk_map, t) = col
    THEN [layer |-> "silver", reason |-> JoinReasons(<<"primary key -> silver (conformed)">>)]
    ELSE IF IsLongTextBlob(m)
    THEN [layer |-> "bronze", reason |-> JoinReasons(<<"long_text_blob -> keep bronze">>)]
    ELSE IF IsFkSource(fk_seq, t, col)
    THEN [layer |-> "silver", reason |-> JoinReasons(<<"foreign key -> silver (joinable)">>)]
    ELSE IF /\ FracBelowPct(m.null_pct, 50)
            /\ DtypeHasAny(m.dtype, {"int", "float", "bool", "datetime", "object"})
    THEN IF DtypeHasAny(m.dtype, {"int", "float"}) /\ FracBelowPct(m.unique_frac, 20)
         THEN [layer |-> "gold", reason |-> JoinReasons(<<"numeric measure -> gold">>)]
         ELSE [layer |-> "silver", reason |-> JoinReasons(<<"cleanable -> silver">>)]
    ELSE [layer |-> "bronze", reason |-> JoinReasons(<<"default: keep bronze">>)]

\* the if / elif chain of classify_columns for one column
ClassifyColumn(pk_map, fk_seq, t, col, m) ==
    IF IsLongTextBlob(m)
    THEN [layer |-> "bronze", reason |-> JoinReasons(<<"long_text_blob -> keep bronze">>)]
    ELSE IF PkGet(pk_map, t) = col
    THEN [layer |-> "silver", reason |-> JoinReasons(<<"primary key -> silver (conformed)">>)]
    ELSE IF IsFkSource(fk_seq, t, col)
    THEN [layer |-> "silver", reason |-> JoinReasons(<<"foreign key -> silver (joinable)">>)]
    ELSE IF /\ FracBelowPct(m.null_pct, 50)
            /\ DtypeHasAny(m.dtype, {"int", "float", "bool", "datetime", "object"})
    THEN IF DtypeHasAny(m.dtype, {"int", "float"}) /\ FracBelowPct(m.unique_frac, 20)
         THEN [layer |-> "gold", reason |-> JoinReasons(<<"numeric measure -> gold">>)]
         ELSE [layer |-> "silver", reason |-> JoinReasons(<<"cleanable -> silver">>)]
    ELSE [layer |-> "bronze", reason |-> JoinReasons(<<"default: keep bronze">>)]

classify_columns(tbls, pk_map, fk_seq) ==
    LET metrics == compute_metrics(tbls)
    IN [t \in Range(TableNamesOf(tbls)) |->
          [c \in Range(ColumnNames(Frame(tbls, t))) |->
              ClassifyColumn(pk_map, fk_seq, t, c, metrics[t][c])]]

-----------------------------------------------------------------------------
(* sql_generator.py: generate_create_statements                             *)
(*                                                                         *)
(* A statement is a record; an identifier is [schema, name], with schema   *)
(* None for the unqualified form "name".  A dict argument is a function;   *)
(* None and {} are both the empty function, the code only tests them for   *)
(* truth.  table_names is [none, list]: none for the default None.         *)

\* the truth value of an optional string
Truthy(x) == x # None /\ x # ""

pandas_type_to_sql(dtype) ==
    IF dtype \in {"INTEGER", "FLOAT", "BOOLEAN", "TIMESTAMP", "TEXT"} THEN dtype ELSE "TEXT"

\* types.get(t, {}).get(col, 'TEXT')
TypesGet(types, t, col) ==
    IF t \in DOMAIN types /\ col \in DOMAIN types[t] THEN types[t][col] ELSE "TEXT"

NoIdent == [schema |-> None, name |-> None]

Stmt(kind) ==
    [kind |-> kind, schema |-> None, table |-> NoIdent, if_not_exists |-> FALSE,
     columns |-> <<>>, column |-> None, ref_table |-> NoIdent, ref_column |-> None]

\* f'CREATE SCHEMA IF NOT EXISTS {schema_name};'
CreateSchemaStmt(schema_name) == [Stmt("CREATE SCHEMA") EXCEPT !.schema = schema_name]
\* f'DROP TABLE IF EXISTS {table_ident};'
DropTableStmt(ident) == [Stmt("DROP TABLE") EXCEPT !.table = ident]
\* f'{create_kw} {table_ident} (...);'
CreateTableStmt(ident, if_not_exists, cols) ==
    [Stmt("CREATE TABLE") EXCEPT !.table = ident, !.if_not_exists = if_not_exists,
                                 !.columns = cols]
\* f'ALTER TABLE {src_ident} ADD FOREIGN KEY ("{col}") REFERENCES {ref_ident} ("{ref_col}");'
AlterTableStmt(src_ident, col, ref_ident, ref_col) ==
    [Stmt("ALTER TABLE") EXCEPT !.table = src_ident, !.column = col,
                                !.ref_table = ref_ident, !.ref_column = ref_col]

\* fault: an empty list falls back to every table (table_names or list(tables.keys()))
Selected_EmptyIsDefault(frames, table_names) ==
    IF ~table_names.none /\ table_names.list # <<>> THEN table_names.list
    ELSE TableNamesOf(frames)

\* selected = table_names if table_names is not None else list(tables.keys())
Selected(frames, table_names) ==
    IF ~table_names.none THEN table_names.list ELSE TableNamesOf(frames)

\* fault: the schema argument wins over the per-table override
qname_ArgumentFirst(name, schema, table_schema_map) ==
    LET sch == IF Truthy(schema) THEN schema
               ELSE IF name \in DOMAIN table_schema_map THEN table_schema_map[name]
               ELSE schema
    IN IF Truthy(sch) THEN [schema |-> sch, name |-> name]
       ELSE [schema |-> None, name |-> name]

qname(name, schema, table_schema_map) ==
    LET sch == IF name \in DOMAIN table_schema_map THEN table_schema_map[name] ELSE schema
    IN IF Truthy(sch) THEN [schema |-> sch, name |-> name]
       ELSE [schema |-> None, name |-> name]

\* the column lines of one CREATE TABLE
ColumnDefs(df, analysis, t) ==
    [i \in 1..Len(df) |->
        [name |-> df[i].name,
         sql_type |-> pandas_type_to_sql(TypesGet(analysis.types, t, df[i].name)),
         primary_key |-> (PkGet(analysis.pks, t) = df[i].name)]]

\* fault: the DROP is appended after the CREATE
TableStatements_DropAfterCreate(frames, analysis, c, t) ==
    IF t \notin Range(TableNamesOf(frames)) THEN <<>>
    ELSE LET table_ident == qname(t, c.schema_name, c.table_schema_map)
             table_stmt == CreateTableStmt(table_ident, c.if_not_exists,
                                           ColumnDefs(Frame(frames, t), analysis, t))
         IN <<table_stmt>>
            \o (IF c.drop_if_exists THEN <<DropTableStmt(table_ident)>> ELSE <<>>)

\* one pass of the loop over selected: the statements appended for t
TableStatements(frames, analysis, c, t) ==
    IF t \notin Range(TableNamesOf(frames)) THEN <<>>
    ELSE LET table_ident == qname(t, c.schema_name, c.table_schema_map)
             table_stmt == CreateTableStmt(table_ident, c.if_not_exists,
                                           ColumnDefs(Frame(frames, t), analysis, t))
         IN (IF c.drop_if_exists THEN <<DropTableStmt(table_ident)>> ELSE <<>>)
            \o <<table_stmt>>

\* fault: the source table is not tested against selected
FkStatements_AnySource(frames, c, e) ==
    LET selected == Range(Selected(frames, c.table_names))
        src_ident == qname(e.table, c.schema_name, c.table_schema_map)
        alter(ref_ident) == <<AlterTableStmt(src_ident, e.col, ref_ident, e.ref_col)>>
    IN IF e.ref_table \in selected
       THEN alter(qname(e.ref_table, c.schema_name, c.table_schema_map))
       ELSE IF e.ref_table \in DOMAIN c.table_schema_map
       THEN alter(qname(e.ref_table, c.table_schema_map[e.ref_table], c.table_schema_map))
       ELSE IF Truthy(c.ref_layer_name) /\ c.ref_layer_name \in DOMAIN c.layer_schema_map
       THEN alter(qname(e.ref_table, c.layer_schema_map[c.ref_layer_name],
                        c.table_schema_map))
       ELSE <<>>

\* one pass of the loop over fks.items(): the statements appended for edge e
FkStatements(frames, c, e) ==
    LET selected == Range(Selected(frames, c.table_names))
        src_ident == qname(e.table, c.schema_name, c.table_schema_map)
        alter(ref_ident) == <<AlterTableStmt(src_ident, e.col, ref_ident, e.ref_col)>>
    IN IF e.table \notin selected THEN <<>>
       ELSE IF e.ref_table \in selected
       THEN alter(qname(e.ref_table, c.schema_name, c.table_schema_map))
       ELSE IF e.ref_table \in DOMAIN c.table_schema_map
       THEN alter(qname(e.ref_table, c.table_schema_map[e.ref_table], c.table_schema_map))
       ELSE IF Truthy(c.ref_layer_name) /\ c.ref_layer_name \in DOMAIN c.layer_schema_map
       THEN alter(qname(e.ref_table, c.layer_schema_map[c.ref_layer_name],
                        c.table_schema_map))
       ELSE <<>>

\* the FK statements placed before the table statements
generate_create_statements_FksFirst(frames, analysis, c) ==
    LET selected == Selected(frames, c.table_names)
    IN (IF Truthy(c.schema_name) THEN <<CreateSchemaStmt(c.schema_name)>> ELSE <<>>)
       \o Flatten([i \in 1..Len(analysis.fks) |->
                      FkStatements(frames, c, analysis.fks[i])])
       \o Flatten([i \in 1..Len(selected) |->
                      TableStatements(frames, analysis, c, selected[i])])

\* stmts of generate_create_statements; the result is '\n\n'.join(stmts)
generate_create_statements(frames, analysis, c) ==
    LET selected == Selected(frames, c.table_names)
    IN (IF Truthy(c.schema_name) THEN <<CreateSchemaStmt(c.schema_name)>> ELSE <<>>)
       \o Flatten([i \in 1..Len(selected) |->
                      TableStatements(frames, analysis, c, selected[i])])
       \o Flatten([i \in 1..Len(analysis.fks) |->
                      FkStatements(frames, c, analysis.fks[i])])

-----------------------------------------------------------------------------
(* layers.py: materialize_bronze, materialize_silver, materialize_gold      *)
(*                                                                         *)
(* The layer_schema_map argument is [none, map], none for the default      *)
(* None.  The materializers write one file, <out_dir>/schema.sql.          *)

\* layer_schema_map after "if layer_schema_map is None"
DefaultLayerSchemaMap == [l \in {"bronze", "silver", "gold"} |-> l]
LayerSchemaMap(arg) == IF arg.none THEN DefaultLayerSchemaMap ELSE arg.map

\* dict.get(key, default)
Get(d, key, default) == IF key \in DOMAIN d THEN d[key] ELSE default

\* the keyword arguments the materializers pass to generate_create_statements
LayerConfig(frames, schema_name, ref_layer_name, layer_schema_map) ==
    [table_names |-> [none |-> FALSE, list |-> TableNamesOf(frames)],
     drop_if_exists |-> TRUE, if_not_exists |-> TRUE,
     schema_name |-> schema_name, ref_layer_name |-> ref_layer_name,
     layer_schema_map |-> layer_schema_map, table_schema_map |-> << >>]

\* [c for c, meta in classified.get(t, {}).items() if meta['layer'] == layer]
LayerColumns(cls, df, t, layer) ==
    LET keep == [i \in 1..Len(df) |-> cls[t][df[i].name].layer = layer]
        idx == SelectSeqIdx(Len(df), keep, 1)
    IN [k \in 1..Len(idx) |-> df[idx[k]].name]

\* df[cols]
SelectColumns(df, cols) == [k \in 1..Len(cols) |-> Column(df, cols[k])]

\* the rows idx of df, in that order
TakeRows(df, idx) ==
    [c \in 1..Len(df) |->
        [df[c] EXCEPT !.vals = [k \in 1..Len(idx) |-> df[c].vals[idx[k]]]]]

\* df.drop_duplicates(subset=[col]): the first row of every value is kept
DropDuplicates(df, col) ==
    LET vals == Column(df, col).vals
        keep == [i \in 1..Len(vals) |-> \A j \in 1..(i - 1) : vals[j] # vals[i]]
    IN TakeRows(df, SelectSeqIdx(Len(vals), keep, 1))

\* bronze_tables = {t: df.copy() for t, df in tables.items()}
BronzeFrames(tbls) == tbls

\* fault: layer_schema_map.get('bronze'), without the default
BronzeConfig_NoDefault(tbls, arg) ==
    LayerConfig(BronzeFrames(tbls), Get(LayerSchemaMap(arg), "bronze", None),
                None, LayerSchemaMap(arg))

\* schema_name = layer_schema_map.get('bronze', 'bronze'), ref_layer_name=None
BronzeConfig(tbls, arg) ==
    LayerConfig(BronzeFrames(tbls), Get(LayerSchemaMap(arg), "bronze", "bronze"),
                None, LayerSchemaMap(arg))

\* fault: a table without silver columns is kept, with no column
SilverFrames_NoneLeftOut(tbls, cls) ==
    [i \in 1..Len(tbls) |->
        [name |-> tbls[i].name,
         df |-> SelectColumns(tbls[i].df,
                              LayerColumns(cls, tbls[i].df, tbls[i].name, "silver"))]]

\* cleaned: per table the silver columns, a table without any left out
SilverFrames(tbls, cls) ==
    Flatten([i \in 1..Len(tbls) |->
        LET cols == LayerColumns(cls, tbls[i].df, tbls[i].name, "silver")
        IN IF cols = <<>> THEN <<>>
           ELSE <<[name |-> tbls[i].name, df |-> SelectColumns(tbls[i].df, cols)]>>])

SilverConfig(frames, arg) ==
    LayerConfig(frames, Get(LayerSchemaMap(arg), "silver", None),
                "bronze", LayerSchemaMap(arg))

\* str(x) of a cell: a number gives its decimal text, a null the text nan
StrOfCell(cell) ==
    CASE cell.kind = "str" -> cell
      [] cell.kind = "num" -> Str(1000 + cell.v, DecimalLen(cell.v))
      [] cell.kind = "nan" -> Str(999, 3)

\* pd.to_numeric(s, errors='ignore') of an object column: converted when
\* every cell is a number or null, returned as it is otherwise
ToNumeric(s) ==
    IF s.dtype = "object" /\ \A i \in 1..Len(s.vals) : s.vals[i].kind # "str"
    THEN [s EXCEPT !.dtype = IF \E i \in 1..Len(s.vals) : s.vals[i] = NA
                             THEN "float64" ELSE "int64"]
    ELSE s

\* pd.to_datetime(s, errors='ignore') when the name contains date or time
ToDatetime(s) ==
    LET low == Lower(Chars(s.name))
    IN IF /\ Contains(low, Chars("date")) \/ Contains(low, Chars("time"))
          /\ s.dtype \in {"int64", "float64"}
       THEN [s EXCEPT !.dtype = "datetime64[ns]"]
       ELSE s

\* df2[col].astype(str).str.strip() of a column that is still object
StripStrings(s) ==
    IF s.dtype = "object"
    THEN [s EXCEPT !.vals = [i \in 1..Len(s.vals) |-> StrOfCell(s.vals[i])]]
    ELSE s

\* the column loop of the cleaning pass: the assignments df2[col] = ...
CleanColumns(df) == [c \in 1..Len(df) |-> StripStrings(ToDatetime(ToNumeric(df[c])))]

\* cleaned_tables[t]
CleanFrame(df, pk) ==
    LET df2 == CleanColumns(df)
    IN IF pk # None /\ pk \in Range(ColumnNames(df2)) THEN DropDuplicates(df2, pk) ELSE df2

\* fault: df2 = df, the assignments df2[col] = ... write to the caller's frame
CallerFrame_NoCopy(df, df2) == df2

\* df2 = df.copy(): the caller's frame after the assignments to df2
CallerFrame(df, df2) == df

\* the caller's tables after the cleaning pass of materialize_silver
TablesAfterCleaning(tbls) ==
    [i \in 1..Len(tbls) |->
        [name |-> tbls[i].name, df |-> CallerFrame(tbls[i].df, CleanColumns(tbls[i].df))]]

\* fault: the last of the largest tables
FactTable_LastLargest(tbls) ==
    tbls[CHOOSE i \in 1..Len(tbls) :
            /\ \A j \in 1..Len(tbls) : RowCount(tbls[j].df) <= RowCount(tbls[i].df)
            /\ \A j \in (i + 1)..Len(tbls) : RowCount(tbls[j].df) < RowCount(tbls[i].df)].name

\* max(sizes, key=lambda k: sizes[k]): the first of the largest tables
FactTable(tbls) ==
    tbls[CHOOSE i \in 1..Len(tbls) :
            /\ \A j \in 1..Len(tbls) : RowCount(tbls[j].df) <= RowCount(tbls[i].df)
            /\ \A j \in 1..(i - 1) : RowCount(tbls[j].df) < RowCount(tbls[i].df)].name

\* fault: the gold frames keep the names of their tables
GoldTables_NoPrefix(tbls, cls) ==
    Flatten([i \in 1..Len(tbls) |->
        LET cols == LayerColumns(cls, tbls[i].df, tbls[i].name, "gold")
        IN IF cols = <<>> THEN <<>>
           ELSE <<[name |-> tbls[i].name, df |-> SelectColumns(tbls[i].df, cols)]>>])

\* gold_tables: fact_<F> and dim_<T> of the gold columns, where there are any
GoldTables(tbls, cls) ==
    LET fact_table == FactTable(tbls)
        frame(prefix, t) ==
            LET cols == LayerColumns(cls, Frame(tbls, t), t, "gold")
            IN IF cols = <<>> THEN <<>>
               ELSE <<[name |-> prefix \o t, df |-> SelectColumns(Frame(tbls, t), cols)]>>
    IN frame("fact_", fact_table)
       \o Flatten([i \in 1..Len(tbls) |->
                      IF tbls[i].name = fact_table THEN <<>>
                      ELSE frame("dim_", tbls[i].name)])

\* gold_artifacts['dim_customer'] and ['dim_product']
DedupedCopy(tbls, t, key, name) ==
    IF t \notin Range(TableNamesOf(tbls)) THEN <<>>
    ELSE LET df == Frame(tbls, t)
         IN <<[name |-> name,
               df |-> IF key \in Range(ColumnNames(df)) THEN DropDuplicates(df, key) ELSE df]>>

\* the column names of left.merge(right, on=key, how='left', suffixes=...)
MergeColumns(left, right, key, lsuffix, rsuffix) ==
    LET both == (Range(left) \cap Range(right)) \ {key}
        others == SelectSeq(right, LAMBDA c : c # key)
    IN [i \in 1..Len(left) |-> IF left[i] \in both THEN left[i] \o lsuffix ELSE left[i]]
       \o [i \in 1..Len(others) |->
              IF others[i] \in both THEN others[i] \o rsuffix ELSE others[i]]

\* a frame of which only the column names are kept: it goes to
\* generate_create_statements, which reads df.columns
Header(names) == [k \in 1..Len(names) |-> Col(names[k], "object", << >>)]

\* gold_artifacts['fact_sales']; raised when a merge or the aggregation
\* raises KeyError
FactSales(tbls) ==
    LET names == Range(TableNamesOf(tbls))
        done(frames) == [raised |-> FALSE, frames |-> frames]
        failed == [raised |-> TRUE, frames |-> << >>]
    IN IF ~("order_items" \in names /\ "orders" \in names) THEN done(<< >>)
       ELSE LET oi == ColumnNames(Frame(tbls, "order_items"))
                ords == ColumnNames(Frame(tbls, "orders"))
                products == IF "products" \in names
                            THEN ColumnNames(Frame(tbls, "products")) ELSE << >>
                with_products == "products" \in names /\ "product_id" \in Range(oi)
                merged1 == MergeColumns(oi, ords, "order_id", "_item", "_order")
                merged2 == IF with_products
                           THEN MergeColumns(merged1, products, "product_id", "_x", "_y")
                           ELSE merged1
                merged == IF /\ {"quantity", "unit_price"} \subseteq Range(merged2)
                             /\ "line_amount" \notin Range(merged2)
                          THEN Append(merged2, "line_amount") ELSE merged2
            IN IF "order_id" \notin Range(oi) \/ "order_id" \notin Range(ords)
               THEN failed
               ELSE IF with_products /\ ("product_id" \notin Range(merged1)
                                         \/ "product_id" \notin Range(products))
               THEN failed
               ELSE IF "order_id" \notin Range(merged)
               THEN done(<<[name |-> "fact_sales_raw", df |-> Header(merged)]>>)
               ELSE IF "line_amount" \notin Range(merged)
               THEN failed
               ELSE done(<<[name |-> "fact_sales",
                            df |-> Header(<<"order_id", "line_amount">>)]>>)

GoldArtifacts(tbls) ==
    [raised |-> FactSales(tbls).raised,
     frames |-> DedupedCopy(tbls, "customers", "customer_id", "dim_customer")
                \o DedupedCopy(tbls, "products", "product_id", "dim_product")
                \o FactSales(tbls).frames]

\* d[e.name] = e.df: a present key keeps its place and takes the new value
Put(d, e) ==
    IF \E i \in 1..Len(d) : d[i].name = e.name
    THEN [i \in 1..Len(d) |-> IF d[i].name = e.name THEN e ELSE d[i]]
    ELSE Append(d, e)

\* fault: a present key keeps its value
RECURSIVE DictUpdate_KeepPresent(_, _)
DictUpdate_KeepPresent(d, upd) ==
    IF upd = << >> THEN d
    ELSE DictUpdate_KeepPresent(
            IF \E i \in 1..Len(d) : d[i].name = Head(upd).name THEN d ELSE Append(d, Head(upd)),
            Tail(upd))

\* d.update(upd)
RECURSIVE DictUpdate(_, _)
DictUpdate(d, upd) ==
    IF upd = << >> THEN d ELSE DictUpdate(Put(d, Head(upd)), Tail(upd))

\* final_gold_frames
FinalGoldFrames(gold_tables, gold_artifacts) ==
    DictUpdate(DictUpdate(<< >>, gold_tables), gold_artifacts)

GoldConfig(frames, arg) ==
    LayerConfig(frames, Get(LayerSchemaMap(arg), "gold", None),
                "silver", LayerSchemaMap(arg))

-----------------------------------------------------------------------------
(* Inputs: the table sets, the min_overlap values *)

Nums(vs) == [i \in 1..Len(vs) |-> IF vs[i] < 0 THEN NA ELSE Num(vs[i])]
Strs(vs) == [i \in 1..Len(vs) |-> IF vs[i] < 0 THEN NA ELSE Str(vs[i], 1)]

BodyCustomers ==
    << Col("customer_id", "int64", Nums(<<1, 2, 3, 4>>)),
       Col("name", "object", Strs(<<1, 2, 3, 4>>)) >>

BodyOrders ==
    << Col("order_id", "int64", Nums(<<10, 11, 12, 13>>)),
       Col("customer_id", "int64", Nums(<<1, 2, 1, 7>>)) >>

BodyCodes ==
    << Col("code", "int64", Nums(<<1, 2, 3, 9>>)),
       Col("ref", "int64", Nums(<<1, 2, 7, 8>>)),
       Col("orders_key", "float64", Nums(<<10, 11, 20, -1>>)) >>

BodyLoose ==
    << Col("label", "object", <<Num(1), Num(2), Str(1, 1), NA>>),
       Col("qty", "int64", Nums(<<1, 1, 2, 2>>)),
       Col("code", "int64", Nums(<<1, 2, 1, 7>>)) >>

BodyIds ==
    << Col("ID", "object", Strs(<<1, 1, 2, -1>>)),
       Col("order_id", "float64", Nums(<<10, 11, -1, -1>>)),
       Col("ref", "float64", Nums(<<-1, -1, -1, -1>>)) >>

BodyMeasures ==
    << Col("id", "int64", Nums(<<1, 2, 7, 8, 9, 9>>)),
       Col("customer_id", "int64", Nums(<<1, 2, 7, 8, 9, 9>>)),
       Col("code", "int64", Nums(<<1, 2, 3, 4, 5, 6>>)),
       Col("qty", "int64", Nums(<<5, 5, 5, 5, 5, 5>>)),
       Col("note", "object", Strs(<<-1, -1, -1, -1, 1, 2>>)),
       Col("flag", "bool", Nums(<<1, 0, 1, 0, 1, 0>>)) >>

\* [x] * n, and the integers a..b
Repeat(x, n) == [i \in 1..n |-> x]
Span(a, b) == [i \in 1..(b - a + 1) |-> a + i - 1]

\* 100 rows: an id-named column and a description column, each holding one
\* 500-character string in every row (unique_frac 0.01)
BodyDocs ==
    << Col("id", "object", Repeat(Str(1, 500), 100)),
       Col("description", "object", Repeat(Str(3, 500), 100)) >>

\* 101 rows of two 500-character strings (unique_frac 2 / 101), and the
\* two-row table whose id column holds these two strings, next to a
\* categorical column without nulls
BodyBlobRefs ==
    << Col("ref", "object", Repeat(Str(1, 500), 50) \o Repeat(Str(2, 500), 51)) >>

BodyBlobKeys ==
    << Col("id", "object", <<Str(1, 500), Str(2, 500)>>),
       Col("label", "category", Strs(<<5, 5>>)) >>

\* 60 rows: ref holds 41 distinct values and code 60, two of them (1 and 2)
\* customer ids in both
BodyWide ==
    << Col("id", "int64", Nums(Span(101, 160))),
       Col("ref", "int64", Nums(<<1, 2>> \o Span(20, 58) \o Repeat(58, 19))),
       Col("code", "int64", Nums(<<1, 2>> \o Span(201, 258))) >>

\* a frame without columns, and one with a header but no rows
BodyEmpty == << >>

BodyHeaderOnly ==
    << Col("id", "object", << >>),
       Col("name", "object", << >>) >>

Bodies ==
    {BodyCustomers, BodyOrders, BodyCodes, BodyLoose, BodyIds, BodyMeasures,
     BodyEmpty, BodyHeaderOnly}

TableNameSeq == <<"customers", "orders", "Items", "parts">>
TableNames == Range(TableNameSeq)

IsInjective(f) == \A i, j \in DOMAIN f : f[i] = f[j] => i = j
IsIncreasing(f) == \A i, j \in DOMAIN f : i < j => f[i] < f[j]

\* the dicts of at most MaxTables frames: the names in the order of
\* TableNameSeq, every frame under every name
TableSets ==
    UNION { { [i \in 1..k |-> [name |-> TableNameSeq[pos[i]], df |-> dfs[i]]] :
                pos \in {f \in [1..k -> 1..Len(TableNameSeq)] : IsIncreasing(f)},
                dfs \in [1..k -> Bodies] } :
            k \in 0..MaxTables }

\* the tables with many rows, under the same names
LargeBodies == {BodyCustomers, BodyDocs, BodyBlobRefs, BodyBlobKeys, BodyWide}

LargeTableSets ==
    UNION { { [i \in 1..k |-> [name |-> TableNameSeq[pos[i]], df |-> dfs[i]]] :
                pos \in {f \in [1..k -> 1..Len(TableNameSeq)] : IsIncreasing(f)},
                dfs \in [1..k -> LargeBodies] } :
            k \in 0..MaxTables }

\* the tables of the materializers.  Scenario A:
CustomersA ==
    << Col("customer_id", "int64", Nums(<<1, 2>>)),
       Col("name", "object", Strs(<<1, 2>>)) >>

OrdersA ==
    << Col("order_id", "int64", Nums(<<10, 11, 12>>)),
       Col("customer_id", "int64", Nums(<<1, 2, 1>>)) >>

\* customers with a repeated id, an object column of numbers, nulls and a
\* constant measure
CustomersRaw ==
    << Col("customer_id", "int64", Nums(<<1, 2, 2, 3, 4, 5>>)),
       Col("label", "object", <<Num(1), Num(2), NA, Num(2), Num(1), Num(1)>>),
       Col("name", "object", Strs(<<1, 2, -1, 2, 3, 4>>)),
       Col("qty", "int64", Nums(<<5, 5, 5, 5, 5, 5>>)) >>

\* orders without an order_id column
OrdersNoKey ==
    << Col("code", "int64", Nums(<<10, 11, 12>>)),
       Col("customer_id", "int64", Nums(<<1, 2, 1>>)) >>

OrderItems ==
    << Col("id", "int64", Nums(<<1, 2, 3, 4, 5, 6>>)),
       Col("order_id", "int64", Nums(<<10, 10, 11, 11, 12, 12>>)),
       Col("product_id", "int64", Nums(<<1, 2, 1, 2, 1, 2>>)),
       Col("quantity", "int64", Nums(<<1, 1, 1, 1, 1, 1>>)),
       Col("unit_price", "float64", Nums(<<5, 5, 5, 5, 5, 5>>)) >>

\* order items without quantity and unit_price
OrderItemsBare ==
    << Col("id", "int64", Nums(<<1, 2, 3, 4, 5, 6>>)),
       Col("order_id", "int64", Nums(<<10, 10, 11, 11, 12, 12>>)),
       Col("product_id", "int64", Nums(<<1, 2, 1, 2, 1, 2>>)) >>

Products ==
    << Col("product_id", "int64", Nums(<<1, 2>>)),
       Col("name", "object", Strs(<<5, 6>>)) >>

\* products with a unit_price column of their own
ProductsPriced ==
    << Col("product_id", "int64", Nums(<<1, 2>>)),
       Col("unit_price", "float64", Nums(<<5, 6>>)) >>

\* a key and a constant measure, six and seven rows
CustomerGold ==
    << Col("id", "int64", Nums(<<1, 2, 3, 4, 5, 6>>)),
       Col("qty", "int64", Nums(<<5, 5, 5, 5, 5, 5>>)) >>

SalesGold ==
    << Col("id", "int64", Nums(<<1, 2, 3, 4, 5, 6, 7>>)),
       Col("qty", "int64", Nums(<<5, 5, 5, 5, 5, 5, 5>>)) >>

\* no key: a constant measure and a column that is mostly null
MeasureOnly ==
    << Col("qty", "int64", Nums(<<5, 5, 5, 5, 5, 5>>)),
       Col("note", "object", Strs(<<-1, -1, -1, -1, 1, 2>>)) >>

\* a table keyed by two 500-character strings over 101 rows, and a table
\* with a column holding these two strings
BlobTarget ==
    << Col("id", "object", Repeat(Str(1, 500), 50) \o Repeat(Str(2, 500), 51)) >>

BlobSource ==
    << Col("id", "int64", Nums(<<1, 2>>)),
       Col("ref", "object", <<Str(1, 500), Str(2, 500)>>) >>

\* 101 rows with a key and a column holding the two long strings
BlobSourceLong ==
    << Col("id", "int64", Nums(Span(1, 101))),
       Col("ref", "object", Repeat(Str(1, 500), 50) \o Repeat(Str(2, 500), 51)) >>

LayerNameSeq == <<"customers", "orders", "order_items", "products", "customer", "sales">>

LayerBodies(name) ==
    CASE name = "customers" -> <<CustomersA, CustomersRaw>>
      [] name = "orders" -> <<OrdersA, OrdersNoKey>>
      [] name = "order_items" -> <<OrderItems, OrderItemsBare>>
      [] name = "products" -> <<Products, ProductsPriced>>
      [] name = "customer" -> <<CustomerGold, MeasureOnly, BlobSource, BlobSourceLong>>
      [] name = "sales" -> <<SalesGold, BlobTarget>>

\* at most MaxTables of the names, in the order of LayerNameSeq, each with
\* one of its tables
LayerTableSetsAt(pos) ==
    LET k == Len(pos)
        bodies(i) == LayerBodies(LayerNameSeq[pos[i]])
    IN { [i \in 1..k |-> [name |-> LayerNameSeq[pos[i]], df |-> bodies(i)[pick[i]]]] :
            pick \in {p \in [1..k -> 1..Len(LayerBodies("customer"))] :
                         \A i \in 1..k : p[i] <= Len(bodies(i))} }

LayerTableSets ==
    UNION { UNION { LayerTableSetsAt(pos) :
                      pos \in {f \in [1..k -> 1..Len(LayerNameSeq)] : IsIncreasing(f)} } :
            k \in 0..MaxTables }

\* the layer_schema_map arguments: None, {}, a partial and a full dict
LayerMapArgs ==
    { [none |-> TRUE, map |-> << >>],
      [none |-> FALSE, map |-> << >>],
      [none |-> FALSE, map |-> [l \in {"silver"} |-> "clean"]],
      [none |-> FALSE, map |-> [l \in {"bronze", "silver", "gold"} |->
                                  CASE l = "bronze" -> "raw"
                                    [] l = "silver" -> "clean"
                                    [] l = "gold" -> "marts"]] }

\* min_overlap, in percent; 70 is the default
DefaultMinOverlap == 70
MinOverlaps == {3, 30, 50, DefaultMinOverlap, 100}

\* the table sets of the generator runs: each name with its own frame
NamedBody(name) ==
    CASE name = "customers" -> BodyCustomers
      [] name = "orders" -> BodyOrders
      [] name = "parts" -> BodyCodes
      [] name = "Items" -> BodyLoose

\* at most MaxTables of them, in every order
DDLTableSets ==
    UNION { { [i \in 1..k |-> [name |-> names[i], df |-> NamedBody(names[i])]] :
                names \in {f \in [1..k -> TableNames] : IsInjective(f)} } :
            k \in 0..MaxTables }

\* a dict with string keys
Dict(keys, f) == [k \in keys |-> f[k]]
EmptyDict == Dict({}, <<>>)

\* the table_names arguments: None, or a list of at most MaxSel names, known or not
SelectedLists(tbls) ==
    UNION { [1..k -> Range(TableNamesOf(tbls)) \cup {"ghost"}] : k \in 0..MaxSel }

TableNamesArgs(tbls) ==
    {[none |-> TRUE, list |-> <<>>]} \cup {[none |-> FALSE, list |-> l] : l \in SelectedLists(tbls)}

\* (ref_layer_name, layer_schema_map)
RefLayerArgs ==
    { [name |-> None, map |-> EmptyDict],
      [name |-> None, map |-> Dict({"bronze"}, [bronze |-> "bronze"])],
      [name |-> "bronze", map |-> Dict({"bronze"}, [bronze |-> "bronze"])],
      [name |-> "bronze", map |-> Dict({"gold"}, [gold |-> "gold"])] }

TableSchemaMaps ==
    { EmptyDict,
      Dict({"customers"}, [customers |-> "gold"]),
      Dict({"customers", "orders"}, [customers |-> "gold", orders |-> None]) }

Configs(tbls) ==
    { [table_names |-> tn, drop_if_exists |-> d, if_not_exists |-> ine,
       schema_name |-> sn, ref_layer_name |-> rl.name, layer_schema_map |-> rl.map,
       table_schema_map |-> tsm] :
        tn \in TableNamesArgs(tbls), d \in BOOLEAN, ine \in BOOLEAN,
        sn \in {None, "silver"}, rl \in RefLayerArgs, tsm \in TableSchemaMaps }

-----------------------------------------------------------------------------
(* The pipeline *)

Init ==
    /\ pc = "loaded"
    /\ tables \in TableSets
    /\ pks = << >>
    /\ min_overlap = 70
    /\ fks = << >>
    /\ classified = << >>
    /\ cfg = << >>
    /\ stmts = << >>
    /\ files = EmptyDict
    /\ args = EmptyDict
    /\ ran = << >>

DetectPrimaryKeys ==
    /\ pc = "loaded"
    /\ pks' = detect_primary_keys(tables)
    /\ pc' = "pks"
    /\ UNCHANGED <<tables, min_overlap, fks, classified, cfg, stmts, files>>
    /\ UNCHANGED <<args, ran>>

DetectForeignKeys ==
    /\ pc = "pks"
    /\ \E m \in MinOverlaps :
        /\ min_overlap' = m
        /\ fks' = detect_foreign_keys(tables, pks, m)
    /\ pc' = "fks"
    /\ UNCHANGED <<tables, pks, classified, cfg, stmts, files>>
    /\ UNCHANGED <<args, ran>>

Classify ==
    /\ pc = "fks"
    /\ classified' = classify_columns(tables, pks, fks)
    /\ pc' = "classified"
    /\ UNCHANGED <<tables, pks, min_overlap, fks, cfg, stmts, files>>
    /\ UNCHANGED <<args, ran>>

\* analyze(): the PKs, then the edges at the default min_overlap
Analyze ==
    /\ pc = "loaded"
    /\ pks' = detect_primary_keys(tables)
    /\ min_overlap' = DefaultMinOverlap
    /\ fks' = detect_foreign_keys(tables, detect_primary_keys(tables), DefaultMinOverlap)
    /\ pc' = "fks"
    /\ UNCHANGED <<tables, classified, cfg, stmts, files>>
    /\ UNCHANGED <<args, ran>>

\* the analysis dict of the state
Analysis == [pks |-> pks, fks |-> fks, types |-> AnalysisTypes(tables)]

\* a call generate_create_statements(tables, analysis, ...)
Generate ==
    /\ pc = "fks"
    /\ \E c \in Configs(tables) :
        /\ cfg' = c
        /\ stmts' = generate_create_statements(tables, Analysis, c)
    /\ pc' = "generated"
    /\ UNCHANGED <<tables, pks, min_overlap, fks, classified, files>>
    /\ UNCHANGED <<args, ran>>

Next ==
    \/ DetectPrimaryKeys
    \/ DetectForeignKeys
    \/ Classify

Spec == Init /\ [][Next]_vars

\* the same pipeline on the tables with many rows
InitLarge ==
    /\ pc = "loaded"
    /\ tables \in LargeTableSets
    /\ pks = << >>
    /\ min_overlap = DefaultMinOverlap
    /\ fks = << >>
    /\ classified = << >>
    /\ cfg = << >>
    /\ stmts = << >>
    /\ files = EmptyDict
    /\ args = EmptyDict
    /\ ran = << >>

SpecLarge == InitLarge /\ [][Next]_vars

\* the DDL generator on the analysis of the named sample tables
InitDDL ==
    /\ pc = "loaded"
    /\ tables \in DDLTableSets
    /\ pks = << >>
    /\ min_overlap = DefaultMinOverlap
    /\ fks = << >>
    /\ classified = << >>
    /\ cfg = << >>
    /\ stmts = << >>
    /\ files = EmptyDict
    /\ args = EmptyDict
    /\ ran = << >>

NextDDL ==
    \/ Analyze
    \/ Generate

SpecDDL == InitDDL /\ [][NextDDL]_vars

\* materialize_bronze(tables, analysis, layer_schema_map=arg)
MaterializeBronze ==
    /\ pc = "fks"
    /\ \E arg \in LayerMapArgs :
          LET frames == BronzeFrames(tables)
              c == BronzeConfig(tables, arg)
              batch == generate_create_statements(frames, Analysis, c)
          IN IF frames = << >>
             THEN UNCHANGED <<cfg, stmts, files>>
             ELSE /\ cfg' = c
                  /\ stmts' = batch
                  /\ files' = ("bronze/schema.sql" :> batch) @@ files
    /\ pc' = "bronze"
    /\ UNCHANGED <<tables, pks, min_overlap, fks, classified>>
    /\ UNCHANGED <<args, ran>>

\* materialize_silver(tables, analysis, layer_schema_map=arg)
MaterializeSilver ==
    /\ pc \in {"fks", "bronze"}
    /\ \E arg \in LayerMapArgs :
          LET cls == classify_columns(tables, pks, fks)
              frames == SilverFrames(tables, cls)
              c == SilverConfig(frames, arg)
              batch == generate_create_statements(frames, Analysis, c)
          IN /\ classified' = cls
             /\ tables' = TablesAfterCleaning(tables)
             /\ IF frames = << >>
                THEN UNCHANGED <<cfg, stmts, files>>
                ELSE /\ cfg' = c
                     /\ stmts' = batch
                     /\ files' = ("silver/schema.sql" :> batch) @@ files
    /\ pc' = "silver"
    /\ UNCHANGED <<pks, min_overlap, fks>>
    /\ UNCHANGED <<args, ran>>

\* materialize_gold(tables, analysis, layer_schema_map=arg); max() of no
\* table and a failed fact_sales raise out of the function
MaterializeGold ==
    /\ pc \in {"fks", "bronze", "silver"}
    /\ \E arg \in LayerMapArgs :
          LET cls == classify_columns(tables, pks, fks)
              artifacts == GoldArtifacts(tables)
              frames == FinalGoldFrames(GoldTables(tables, cls), artifacts.frames)
              c == GoldConfig(frames, arg)
              batch == generate_create_statements(frames, Analysis, c)
          IN /\ classified' = cls
             /\ IF tables = << >> \/ artifacts.raised
                THEN pc' = "gold_raised" /\ UNCHANGED <<cfg, stmts, files>>
                ELSE /\ pc' = "gold"
                     /\ IF frames = << >>
                        THEN UNCHANGED <<cfg, stmts, files>>
                        ELSE /\ cfg' = c
                             /\ stmts' = batch
                             /\ files' = ("gold/schema.sql" :> batch) @@ files
    /\ UNCHANGED <<tables, pks, min_overlap, fks>>
    /\ UNCHANGED <<args, ran>>

\* the materializers on the analysis of the layer tables, in the order of
\* main: bronze, silver, gold, each of them optional
InitLayers ==
    /\ pc = "loaded"
    /\ tables \in LayerTableSets
    /\ pks = << >>
    /\ min_overlap = DefaultMinOverlap
    /\ fks = << >>
    /\ classified = << >>
    /\ cfg = << >>
    /\ stmts = << >>
    /\ files = EmptyDict
    /\ args = EmptyDict
    /\ ran = << >>

NextLayers ==
    \/ Analyze
    \/ MaterializeBronze
    \/ MaterializeSilver
    \/ MaterializeGold

SpecLayers == InitLayers /\ [][NextLayers]_vars

-----------------------------------------------------------------------------
(* cli.py: main *)

\* dict(pair.split('=') for pair in text.split(',')) of --layer-schema-map,
\* the text given as its pairs; None and the empty text give no dict
ParseLayerSchemaMap(text) ==
    IF text.none \/ text.pairs = << >> THEN [none |-> TRUE, map |-> << >>]
    ELSE [none |-> FALSE,
          map |-> [k \in {text.pairs[i].key : i \in 1..Len(text.pairs)} |->
                      LET last == CHOOSE i \in 1..Len(text.pairs) :
                                     /\ text.pairs[i].key = k
                                     /\ \A j \in (i + 1)..Len(text.pairs) :
                                           text.pairs[j].key # k
                      IN text.pairs[last].value]]

\* table_schema_map: the schema of the table-level layer of every table,
\* gold before silver before bronze
table_schema_map(tbls, col_class, layer_schema_map) ==
    [t \in Range(TableNamesOf(tbls)) |->
        LET layers == {col_class[t][c].layer : c \in DOMAIN col_class[t]}
            table_layer == IF "gold" \in layers THEN "gold"
                           ELSE IF "silver" \in layers THEN "silver"
                           ELSE "bronze"
        IN Get(layer_schema_map, table_layer, None)]

\* the command lines: the optional outputs and materializations asked for
\* and the --layer-schema-map text
CliArgs ==
    LET line(star, langgraph, bronze, silver, gold, text) ==
            [star |-> star, langgraph |-> langgraph,
             materialize_bronze |-> bronze, materialize_silver |-> silver,
             materialize_gold |-> gold, layer_schema_map |-> text]
        pair(k, v) == [key |-> k, value |-> v]
        absent == [none |-> TRUE, pairs |-> << >>]
        partial == [none |-> FALSE, pairs |-> <<pair("silver", "clean")>>]
        full == [none |-> FALSE,
                 pairs |-> <<pair("bronze", "raw"), pair("silver", "clean"),
                             pair("gold", "marts")>>]
    IN { line(None, None, FALSE, FALSE, FALSE, absent),
         line(None, None, FALSE, FALSE, FALSE, full),
         line("star.json", "langgraph.json", TRUE, TRUE, TRUE, absent),
         line("star.json", "langgraph.json", TRUE, TRUE, TRUE, partial),
         line("star.json", None, FALSE, TRUE, FALSE, partial),
         line(None, "langgraph.json", TRUE, FALSE, TRUE, full) }

\* lines 26-70: the DDL of all tables, one generate_create_statements call
\* per schema of table_schema_map, saved to args.out
CliGenerate ==
    /\ pc = "fks"
    /\ LET layer_schema_map == LayerSchemaMap(ParseLayerSchemaMap(args.layer_schema_map))
           col_class == classify_columns(tables, pks, fks)
           tsm == table_schema_map(tables, col_class, layer_schema_map)
           names == TableNamesOf(tables)
           first == [i \in 1..Len(names) |->
                        \A j \in 1..(i - 1) : tsm[names[j]] # tsm[names[i]]]
           keys == SelectSeqIdx(Len(names), first, 1)
           config(sch) ==
               [table_names |-> [none |-> FALSE,
                                 list |-> SelectSeq(names, LAMBDA t : tsm[t] = sch)],
                drop_if_exists |-> FALSE, if_not_exists |-> TRUE,
                schema_name |-> sch, ref_layer_name |-> None,
                layer_schema_map |-> layer_schema_map, table_schema_map |-> tsm]
           parts == [k \in 1..Len(keys) |->
                        generate_create_statements(tables, Analysis,
                                                   config(tsm[names[keys[k]]]))]
       IN /\ classified' = col_class
          /\ IF keys = << >>
             THEN UNCHANGED <<cfg, stmts>>
             ELSE /\ cfg' = config(tsm[names[keys[Len(keys)]]])
                  /\ stmts' = parts[Len(keys)]
          /\ files' = ("model.sql" :> Flatten(parts)) @@ files
    /\ ran' = Append(ran, "save_sql")
    /\ pc' = "ddl"
    /\ UNCHANGED <<tables, pks, min_overlap, fks, args>>

\* fault: the exception of render_erd is not caught
CliRenderErd_Uncaught ==
    /\ pc = "ddl"
    /\ \E raised \in BOOLEAN :
          IF raised
          THEN /\ ran' = Append(ran, "render_erd:raised")
               /\ pc' = "raised"
               /\ UNCHANGED files
          ELSE /\ ran' = Append(ran, "render_erd")
               /\ pc' = "erd"
               /\ files' = ("erd.png" :> [nodes |-> TableNamesOf(tables), edges |-> fks])
                              @@ files
    /\ UNCHANGED <<tables, pks, min_overlap, fks, classified, cfg, stmts, args>>

\* lines 72-77: render_erd, whose exception is caught and printed
CliRenderErd ==
    /\ pc = "ddl"
    /\ \E raised \in BOOLEAN :
          IF raised
          THEN /\ ran' = Append(ran, "render_erd:raised")
               /\ UNCHANGED files
          ELSE /\ ran' = Append(ran, "render_erd")
               /\ files' = ("erd.png" :> [nodes |-> TableNamesOf(tables), edges |-> fks])
                              @@ files
    /\ pc' = "erd"
    /\ UNCHANGED <<tables, pks, min_overlap, fks, classified, cfg, stmts, args>>

\* lines 79-81: build_catalog and save_catalog
CliCatalog ==
    /\ pc = "erd"
    /\ files' = ("catalog.json" :>
                    [t \in Range(TableNamesOf(tables)) |->
                        [rows |-> RowCount(Frame(tables, t)),
                         columns |-> ColumnNames(Frame(tables, t))]]) @@ files
    /\ ran' = Append(ran, "save_catalog")
    /\ pc' = "catalog"
    /\ UNCHANGED <<tables, pks, min_overlap, fks, classified, cfg, stmts, args>>

\* lines 83-87: convert_to_star_schema, whose max() raises on no table
CliStar ==
    /\ pc = "catalog"
    /\ IF ~Truthy(args.star)
       THEN pc' = "star" /\ UNCHANGED <<files, ran>>
       ELSE IF tables = << >>
       THEN /\ pc' = "raised"
            /\ ran' = Append(ran, "convert_to_star_schema:raised")
            /\ UNCHANGED files
       ELSE /\ pc' = "star"
            /\ ran' = Append(ran, "convert_to_star_schema")
            /\ files' = (args.star :>
                            [fact |-> FactTable(tables),
                             dimensions |-> SelectSeq(TableNamesOf(tables),
                                                      LAMBDA t : t # FactTable(tables)),
                             joins |-> fks]) @@ files
    /\ UNCHANGED <<tables, pks, min_overlap, fks, classified, cfg, stmts, args>>

\* lines 89-93: build_langgraph_model and save_langgraph_model_json
CliLangGraph ==
    /\ pc = "star"
    /\ IF ~Truthy(args.langgraph)
       THEN UNCHANGED <<files, ran>>
       ELSE /\ ran' = Append(ran, "build_langgraph_model")
            /\ files' = (args.langgraph :>
                            [tables |-> [t \in Range(TableNamesOf(tables)) |->
                                            [primary_key |-> PkGet(pks, t),
                                             columns |-> ColumnNames(Frame(tables, t))]],
                             foreign_keys |-> fks]) @@ files
    /\ pc' = "langgraph"
    /\ UNCHANGED <<tables, pks, min_overlap, fks, classified, cfg, stmts, args>>

\* lines 97-103
CliBronze ==
    /\ pc = "langgraph"
    /\ IF ~args.materialize_bronze
       THEN UNCHANGED <<cfg, stmts, files, ran>>
       ELSE LET arg == ParseLayerSchemaMap(args.layer_schema_map)
                frames == BronzeFrames(tables)
                c == BronzeConfig(tables, arg)
                batch == generate_create_statements(frames, Analysis, c)
            IN /\ ran' = Append(ran, "materialize_bronze")
               /\ IF frames = << >>
                  THEN UNCHANGED <<cfg, stmts, files>>
                  ELSE /\ cfg' = c
                       /\ stmts' = batch
                       /\ files' = ("bronze/schema.sql" :> batch) @@ files
    /\ pc' = "cli_bronze"
    /\ UNCHANGED <<tables, pks, min_overlap, fks, classified, args>>

\* lines 105-111
CliSilver ==
    /\ pc = "cli_bronze"
    /\ IF ~args.materialize_silver
       THEN UNCHANGED <<tables, classified, cfg, stmts, files, ran>>
       ELSE LET arg == ParseLayerSchemaMap(args.layer_schema_map)
                cls == classify_columns(tables, pks, fks)
                frames == SilverFrames(tables, cls)
                c == SilverConfig(frames, arg)
                batch == generate_create_statements(frames, Analysis, c)
            IN /\ ran' = Append(ran, "materialize_silver")
               /\ classified' = cls
               /\ tables' = TablesAfterCleaning(tables)
               /\ IF frames = << >>
                  THEN UNCHANGED <<cfg, stmts, files>>
                  ELSE /\ cfg' = c
                       /\ stmts' = batch
                       /\ files' = ("silver/schema.sql" :> batch) @@ files
    /\ pc' = "cli_silver"
    /\ UNCHANGED <<pks, min_overlap, fks, args>>

\* lines 113-121; an exception of materialize_gold leaves main
CliGold ==
    /\ pc = "cli_silver"
    /\ IF ~args.materialize_gold
       THEN pc' = "done" /\ UNCHANGED <<classified, cfg, stmts, files, ran>>
       ELSE LET arg == ParseLayerSchemaMap(args.layer_schema_map)
                cls == classify_columns(tables, pks, fks)
                artifacts == GoldArtifacts(tables)
                frames == FinalGoldFrames(GoldTables(tables, cls), artifacts.frames)
                c == GoldConfig(frames, arg)
                batch == generate_create_statements(frames, Analysis, c)
            IN /\ classified' = cls
               /\ IF tables = << >> \/ artifacts.raised
                  THEN /\ pc' = "raised"
                       /\ ran' = Append(ran, "materialize_gold:raised")
                       /\ UNCHANGED <<cfg, stmts, files>>
                  ELSE /\ pc' = "done"
                       /\ ran' = Append(ran, "materialize_gold")
                       /\ IF frames = << >>
                          THEN UNCHANGED <<cfg, stmts, files>>
                          ELSE /\ cfg' = c
                               /\ stmts' = batch
                               /\ files' = ("gold/schema.sql" :> batch) @@ files
    /\ UNCHANGED <<tables, pks, min_overlap, fks, args>>

\* a run of main on the layer tables
InitCLI ==
    /\ pc = "loaded"
    /\ tables \in LayerTableSets
    /\ pks = << >>
    /\ min_overlap = DefaultMinOverlap
    /\ fks = << >>
    /\ classified = << >>
    /\ cfg = << >>
    /\ stmts = << >>
    /\ files = EmptyDict
    /\ args \in CliArgs
    /\ ran = << >>

NextCLI ==
    \/ Analyze
    \/ CliGenerate
    \/ CliRenderErd
    \/ CliCatalog
    \/ CliStar
    \/ CliLangGraph
    \/ CliBronze
    \/ CliSilver
    \/ CliGold

SpecCLI == InitCLI /\ [][NextCLI]_vars

-----------------------------------------------------------------------------
(* Properties of the analysis *)

Analyzed == pc \in {"fks", "classified", "generated"}
PkDetected == pc # "loaded"

EdgeSet == Range(fks)
TableNameSet == Range(TableNamesOf(tables))
ColumnNameSet(t) == Range(ColumnNames(Frame(tables, t)))

\* C1: every edge of detect_foreign_keys targets a table that has a PK, and
\* its target column is exactly the PK detect_primary_keys gave that table.
C1_FkTargetIsDetectedPk ==
    Analyzed =>
        \A e \in EdgeSet :
            /\ e.ref_table \in TableNameSet
            /\ pks[e.ref_table] # None
            /\ e.ref_col = pks[e.ref_table]
            /\ e.ref_col \in ColumnNameSet(e.ref_table)

\* an edge whose source and target column names differ, next to a table
\* without PK that holds values of the source column
C1_Witness ==
    /\ pc = "fks"
    /\ \E e \in EdgeSet : e.ref_col # e.col
    /\ \E t \in TableNameSet : pks[t] = None
    /\ Len(fks) >= 2

\* C2: no edge starts at its source table's own PK column, and no edge has
\* the same table as source and target.
C2_NoOwnPkSourceNoSelfEdge ==
    Analyzed =>
        \A e \in EdgeSet :
            /\ e.col # pks[e.table]
            /\ e.table # e.ref_table

\* an edge out of a table whose own PK column shares two values with the
\* target's PK, so that only the skip keeps the PK column from being a source
C2_Witness ==
    /\ pc = "fks"
    /\ \E e \in EdgeSet :
        /\ pks[e.table] # None
        /\ Cardinality(PkValues(tables, pks, e.table)
                         \cap PkValues(tables, pks, e.ref_table)) >= 2

\* C3: for the same tables and PKs, a larger min_overlap never gives more
\* edges than the min_overlap of the call.
C3_RaisingMinOverlapNeverAddsEdges ==
    pc = "fks" =>
        \A m2 \in MinOverlaps :
            m2 >= min_overlap =>
                Len(detect_foreign_keys(tables, pks, m2)) <= Len(fks)

\* a call whose edge count strictly drops at a larger min_overlap, and one
\* of whose columns is linked to another target there
C3_Witness ==
    /\ pc = "fks"
    /\ min_overlap = 50
    /\ Len(detect_foreign_keys(tables, pks, 70)) < Len(fks)
    /\ \E e \in EdgeSet : \E e2 \in Range(detect_foreign_keys(tables, pks, 70)) :
          e2.table = e.table /\ e2.col = e.col /\ e2.ref_table # e.ref_table

\* the positions of the PK candidates of a frame
CandidateIdx(df) ==
    {i \in 1..Len(df) : NameLooksLikeId(df[i].name) \/ UniqueNonObject(df[i])}

\* C4: the PK of a table is null exactly when it has no candidate; otherwise
\* it is the candidate column with the highest distinct fraction, the first
\* declared among equals.
C4_PkIsTopCandidate ==
    PkDetected =>
        \A t \in TableNameSet :
            LET df == Frame(tables, t) IN
            /\ (pks[t] = None) <=> (CandidateIdx(df) = {})
            /\ CandidateIdx(df) # {} =>
                \E i \in CandidateIdx(df) :
                    /\ pks[t] = df[i].name
                    /\ \A j \in CandidateIdx(df) :
                        /\ ~FracLess(unique_frac(df[i]), unique_frac(df[j]))
                        /\ FracEq(unique_frac(df[i]), unique_frac(df[j])) => i <= j

\* a table with two candidates of equal distinct fraction, and one without PK
C4_Witness ==
    /\ pc = "pks"
    /\ \E t \in TableNameSet : pks[t] = None
    /\ \E t \in TableNameSet : \E i, j \in CandidateIdx(Frame(tables, t)) :
          /\ i < j
          /\ FracEq(unique_frac(Frame(tables, t)[i]), unique_frac(Frame(tables, t)[j]))
          /\ pks[t] = Frame(tables, t)[i].name

\* C5: a table with a column named "id" or "*_id" (case-insensitive) has a
\* PK, whose distinct fraction is at least that of every such column.
C5_IdNamedColumnIsCandidate ==
    PkDetected =>
        \A t \in TableNameSet :
            LET df == Frame(tables, t) IN
            \A i \in 1..Len(df) :
                NameLooksLikeId(df[i].name) =>
                    /\ pks[t] # None
                    /\ pks[t] \in ColumnNameSet(t)
                    /\ ~FracLess(unique_frac(Column(df, pks[t])), unique_frac(df[i]))

\* a text-like id column of low distinct fraction that is the PK, and an id
\* column that loses to a more distinct rival
C5_Witness ==
    /\ pc = "pks"
    /\ \E t \in TableNameSet :
          LET s == Column(Frame(tables, t), pks[t]) IN
          /\ pks[t] # None
          /\ NameLooksLikeId(s.name)
          /\ s.dtype = "object"
          /\ ~FracAbovePct(unique_frac(s), 90)
    /\ \E t \in TableNameSet : \E i \in 1..Len(Frame(tables, t)) :
          /\ NameLooksLikeId(Frame(tables, t)[i].name)
          /\ pks[t] # Frame(tables, t)[i].name
          /\ ~NameLooksLikeId(pks[t])

\* C6: classify_columns has one entry per column of every table, each with
\* a layer among bronze, silver, gold and a non-empty reason.
C6_ClassificationTotal ==
    pc = "classified" =>
        /\ DOMAIN classified = TableNameSet
        /\ \A t \in TableNameSet :
            /\ DOMAIN classified[t] = ColumnNameSet(t)
            /\ Cardinality(DOMAIN classified[t]) = Len(Frame(tables, t))
            /\ \A c \in ColumnNameSet(t) :
                /\ classified[t][c].layer \in {"bronze", "silver", "gold"}
                /\ classified[t][c].reason # ""

\* a classification under an analysis with a table without PK and no edge
\* at all, in which the default rule fires
C6_Witness ==
    /\ pc = "classified"
    /\ fks = <<>>
    /\ \E t \in TableNameSet : pks[t] = None
    /\ \E t \in TableNameSet : \E c \in ColumnNameSet(t) :
          classified[t][c].reason = "default: keep bronze"
    /\ \E t \in TableNameSet : \E c \in ColumnNameSet(t) :
          classified[t][c].layer = "silver"

-----------------------------------------------------------------------------
(* Properties of the DDL batch *)

Generated == pc = "generated"

\* the selected list of the call, and the names it lists
SelectedNow == Selected(tables, cfg.table_names)
SelectedSet == Range(SelectedNow)

Occurrences(seq, x) == Cardinality({i \in 1..Len(seq) : seq[i] = x})

StmtIdx(kind) == {i \in 1..Len(stmts) : stmts[i].kind = kind}
CreatesOf(t) == {i \in StmtIdx("CREATE TABLE") : stmts[i].table.name = t}
DropsOf(t) == {i \in StmtIdx("DROP TABLE") : stmts[i].table.name = t}

\* the table statements of the batch hold `n` CREATE TABLE for t, each
\* directly after its own DROP TABLE when drop_if_exists, and no DROP otherwise
TableStatementCount(t, n) ==
    /\ Cardinality(CreatesOf(t)) = n
    /\ cfg.drop_if_exists =>
        /\ Cardinality(DropsOf(t)) = n
        /\ \A i \in DropsOf(t) : i + 1 \in CreatesOf(t) /\ stmts[i + 1].table = stmts[i].table
        /\ \A i \in CreatesOf(t) : i - 1 \in DropsOf(t)
    /\ ~cfg.drop_if_exists => DropsOf(t) = {}

\* C7, as claimed: every listing of a name in the selected list, whatever
\* the name, has exactly one CREATE TABLE (with exactly one DROP TABLE
\* directly before it when drop_if_exists).
C7_Claimed_OneCreatePerSelected ==
    Generated => \A t \in SelectedSet : TableStatementCount(t, Occurrences(SelectedNow, t))

\* C7, amended: the count holds for every listing of a name that is a table
\* of the table set; a listed name that is no table gets no statement, and
\* no table statement names anything outside the selected list.
C7_OneCreatePerSelectedPresentTable ==
    Generated =>
        /\ \A t \in SelectedSet \cap TableNameSet :
              TableStatementCount(t, Occurrences(SelectedNow, t))
        /\ \A t \in SelectedSet \ TableNameSet : TableStatementCount(t, 0)
        /\ \A i \in StmtIdx("CREATE TABLE") \cup StmtIdx("DROP TABLE") :
              stmts[i].table.name \in SelectedSet

\* a DROP + CREATE batch for a list naming a table and a name that is none
C7_Witness ==
    /\ Generated
    /\ cfg.drop_if_exists
    /\ ~cfg.table_names.none
    /\ SelectedSet \cap TableNameSet # {}
    /\ SelectedSet \ TableNameSet # {}
    /\ StmtIdx("DROP TABLE") # {}

EmptyListGiven == Generated /\ ~cfg.table_names.none /\ cfg.table_names.list = <<>>

\* C8, as claimed: table_names = [] gives zero statements in every
\* configuration.
C8_Claimed_EmptyListEmptyBatch ==
    EmptyListGiven => Len(stmts) = 0

\* C8, amended: table_names = [] gives no table and no FK statement; the
\* batch is empty when schema_name is unset and is the single CREATE SCHEMA
\* statement when it is set.
C8_EmptyListOnlySchemaHeader ==
    EmptyListGiven =>
        /\ \A i \in 1..Len(stmts) : stmts[i].kind = "CREATE SCHEMA"
        /\ Len(stmts) = (IF Truthy(cfg.schema_name) THEN 1 ELSE 0)
        /\ Truthy(cfg.schema_name) => stmts[1].schema = cfg.schema_name

\* an empty list over tables that have edges, with schema_name set
C8_Witness ==
    /\ EmptyListGiven
    /\ Truthy(cfg.schema_name)
    /\ Len(fks) > 0
    /\ Len(stmts) = 1

IsAlter(st) == st.kind = "ALTER TABLE"

\* the ALTER statements of the batch, in order: source table, source
\* column and referenced identifier
AlterRefs ==
    LET alters == SelectSeq(stmts, IsAlter)
    IN [k \in 1..Len(alters) |->
          [table |-> alters[k].table.name, col |-> alters[k].column,
           ref |-> alters[k].ref_table]]

\* the identifier of `name` under an optional schema
IdentIn(schema, name) == [schema |-> IF Truthy(schema) THEN schema ELSE None, name |-> name]

InBatch(e) == e.ref_table \in SelectedSet
HasOverride(e) == e.ref_table \in DOMAIN cfg.table_schema_map
TierMapped(e) == Truthy(cfg.ref_layer_name) /\ cfg.ref_layer_name \in DOMAIN cfg.layer_schema_map

\* rules (a) to (d) as the claim words them
ClaimedRef(e) ==
    LET ref(schema) == <<[table |-> e.table, col |-> e.col, ref |-> IdentIn(schema, e.ref_table)]>>
    IN IF InBatch(e) THEN ref(cfg.schema_name)
       ELSE IF HasOverride(e) THEN ref(cfg.table_schema_map[e.ref_table])
       ELSE IF TierMapped(e) THEN ref(cfg.layer_schema_map[cfg.ref_layer_name])
       ELSE <<>>

\* rules (a) to (d), a per-table override of the target deciding the schema
\* in rule (a) too
AmendedRef(e) ==
    LET ref(schema) == <<[table |-> e.table, col |-> e.col, ref |-> IdentIn(schema, e.ref_table)]>>
    IN IF InBatch(e)
       THEN ref(IF HasOverride(e) THEN cfg.table_schema_map[e.ref_table] ELSE cfg.schema_name)
       ELSE IF HasOverride(e) THEN ref(cfg.table_schema_map[e.ref_table])
       ELSE IF TierMapped(e) THEN ref(cfg.layer_schema_map[cfg.ref_layer_name])
       ELSE <<>>

\* the edges whose source table is in the selected batch, in order
BatchEdgeIdx == {i \in 1..Len(fks) : fks[i].table \in SelectedSet}

\* C9, as claimed: the referenced identifier follows (a) batch schema,
\* (b) per-table override, (c) tier schema, (d) omitted; a target in the
\* batch gets the batch schema even when it has an override.
C9_Claimed_BatchSchemaBeforeOverride ==
    Generated =>
        AlterRefs = Flatten([i \in 1..Len(fks) |->
                        IF i \in BatchEdgeIdx THEN ClaimedRef(fks[i]) ELSE <<>>])

\* C9, amended: a statement is emitted in cases (a), (b), (c) and omitted in
\* (d); the target's schema is its per-table override when it has one (in
\* case (a) as well), else the batch schema in (a) and the tier schema in
\* (c); an empty or null schema gives the unqualified name.
C9_OverrideDecidesTargetSchema ==
    Generated =>
        AlterRefs = Flatten([i \in 1..Len(fks) |->
                        IF i \in BatchEdgeIdx THEN AmendedRef(fks[i]) ELSE <<>>])

\* a batch with an edge whose target is in the batch and has an override
\* naming another schema than the batch schema
C9_Witness ==
    /\ Generated
    /\ Truthy(cfg.schema_name)
    /\ \E i \in BatchEdgeIdx :
        /\ InBatch(fks[i])
        /\ HasOverride(fks[i])
        /\ cfg.table_schema_map[fks[i].ref_table] # cfg.schema_name
    /\ \E k \in 1..Len(AlterRefs) : AlterRefs[k].ref.schema = "gold"

Resolves(e) == InBatch(e) \/ HasOverride(e) \/ TierMapped(e)

\* C10: there are at most as many ALTER TABLE statements as edges whose
\* source table is selected, and exactly as many iff every such edge's
\* target resolves by (a), (b) or (c).
C10_AlterCountBoundedByBatchEdges ==
    Generated =>
        /\ Cardinality(StmtIdx("ALTER TABLE")) <= Cardinality(BatchEdgeIdx)
        /\ (Cardinality(StmtIdx("ALTER TABLE")) = Cardinality(BatchEdgeIdx))
              <=> (\A i \in BatchEdgeIdx : Resolves(fks[i]))

\* a batch in which one edge is emitted and another omitted, with a third
\* edge whose source is not selected
C10_Witness ==
    /\ Generated
    /\ Cardinality(StmtIdx("ALTER TABLE")) > 0
    /\ Cardinality(StmtIdx("ALTER TABLE")) < Cardinality(BatchEdgeIdx)
    /\ Cardinality(BatchEdgeIdx) < Len(fks)

-----------------------------------------------------------------------------
(* C11: the order of the batch *)

IsCreate(st) == st.kind = "CREATE TABLE"

\* the names of the CREATE TABLE statements, in batch order
CreateNames ==
    LET creates == SelectSeq(stmts, IsCreate)
    IN [k \in 1..Len(creates) |-> creates[k].table.name]

\* the selected names that are tables, in the order of the selected list
SelectedPresent ==
    LET IsTable(t) == t \in TableNameSet
    IN SelectSeq(SelectedNow, IsTable)

\* the edges that have an ALTER statement, in the order of the edge list
EmittedEdges ==
    LET Emitted(e) == \E k \in 1..Len(AlterRefs) :
                         AlterRefs[k].table = e.table /\ AlterRefs[k].col = e.col
    IN SelectSeq(fks, Emitted)

\* C11: the batch is the optional CREATE SCHEMA statement, then the table
\* statements in the order of the selected list (each DROP directly before
\* its CREATE), then the ALTER statements, all after the last table
\* statement and in the order of the edge list.
C11_BatchOrder ==
    Generated =>
        /\ StmtIdx("CREATE SCHEMA") = (IF Truthy(cfg.schema_name) THEN {1} ELSE {})
        /\ CreateNames = SelectedPresent
        /\ \A i \in StmtIdx("DROP TABLE") :
              i + 1 \in StmtIdx("CREATE TABLE") /\ stmts[i + 1].table = stmts[i].table
        /\ \A i \in StmtIdx("CREATE TABLE") \cup StmtIdx("DROP TABLE") :
              \A j \in StmtIdx("ALTER TABLE") : i < j
        /\ Len(AlterRefs) = Len(EmittedEdges)
        /\ \A k \in 1..Len(AlterRefs) :
              /\ AlterRefs[k].table = EmittedEdges[k].table
              /\ AlterRefs[k].col = EmittedEdges[k].col

\* a batch with the schema statement, two tables selected against the
\* order of the table set, and two ALTER statements
C11_Witness ==
    /\ Generated
    /\ Truthy(cfg.schema_name)
    /\ cfg.drop_if_exists
    /\ Len(CreateNames) = 2
    /\ \E i, j \in 1..Len(tables) :
          i < j /\ CreateNames = <<tables[j].name, tables[i].name>>
    /\ Len(AlterRefs) = 2
    /\ AlterRefs[1].table # AlterRefs[2].table

-----------------------------------------------------------------------------
(* C16: the overlap threshold and the naming heuristic *)

\* common and vals of the pair (t.col, ref_table.pk)
CommonOf(t, col, ref_table) ==
    DropnaUnique(Column(Frame(tables, t), col)) \cap PkValues(tables, pks, ref_table)

ValsOf(t, col) == DropnaUnique(Column(Frame(tables, t), col))

\* the threshold the claim gives the pair of an edge
ApplicableThreshold(e) ==
    IF LooksLikeForeignKey(e.col, e.ref_table, e.ref_col) THEN 50 ELSE min_overlap

\* the acceptance conditions of lines 68-103 for the pair, the overlap
\* compared with `thr`
AcceptedAt(thr, t, s, ref_table) ==
    LET vals == DropnaUnique(s)
        common == vals \cap PkValues(tables, pks, ref_table)
    IN /\ ref_table # t
       /\ pks[ref_table] # None
       /\ common # {}
       /\ 100 * Cardinality(common) >= thr * Cardinality(vals)
       /\ Cardinality(common) >= MinCommon(Cardinality(vals))
       /\ TypesCompatible(infer_column_type(s),
                          infer_column_type(Column(Frame(tables, ref_table), pks[ref_table])))

\* C16, as claimed: no edge has an overlap below min_overlap, or below 50%
\* when the naming heuristic fires for it, and the heuristic only relaxes:
\* a pair whose name fires the heuristic and that the conditions accept at
\* the threshold min_overlap (the heuristic not firing) is accepted.
C16_Claimed_HeuristicOnlyRelaxes ==
    Analyzed =>
        /\ \A e \in EdgeSet :
              100 * Cardinality(CommonOf(e.table, e.col, e.ref_table))
                  >= ApplicableThreshold(e) * Cardinality(ValsOf(e.table, e.col))
        /\ \A t \in TableNameSet, r \in TableNameSet :
              \A i \in 1..Len(Frame(tables, t)) :
                  LET s == Frame(tables, t)[i] IN
                  (/\ pks[r] # None
                   /\ LooksLikeForeignKey(s.name, r, pks[r])
                   /\ AcceptedAt(min_overlap, t, s, r))
                  => Accepts(tables, pks, min_overlap, t, s, r)

-----------------------------------------------------------------------------
(* C18: one edge per source column, to the first qualifying table *)

\* the edges leaving (t, col)
OutEdges(t, col) == {k \in 1..Len(fks) : fks[k].table = t /\ fks[k].col = col}

\* the positions, in input table order, of the tables the pair conditions
\* accept as a target of (t, s)
Qualifying(t, s) ==
    {j \in 1..Len(tables) : Accepts(tables, pks, min_overlap, t, s, tables[j].name)}

\* C18: a source column has at most one outgoing edge; the edge exists iff
\* some table qualifies and then targets the first qualifying table in
\* input table order, whatever the later ones' overlaps; a column with no
\* non-null value has no edge.
C18_FirstQualifyingTarget ==
    Analyzed =>
        \A t \in TableNameSet : \A i \in 1..Len(Frame(tables, t)) :
            LET s == Frame(tables, t)[i]
                out == OutEdges(t, s.name)
                qual == Qualifying(t, s)
            IN /\ Cardinality(out) <= 1
               /\ DropnaUnique(s) = {} => out = {}
               /\ pks[t] # s.name =>
                    IF qual = {} THEN out = {}
                    ELSE \E k \in out :
                            /\ fks[k].ref_table = tables[CHOOSE j \in qual :
                                                    \A j2 \in qual : j <= j2].name
                            /\ fks[k].ref_col = pks[fks[k].ref_table]

\* a column with two qualifying tables, the later one with the strictly
\* higher overlap, whose edge targets the earlier one
C18_Witness ==
    /\ Analyzed
    /\ \E t \in TableNameSet : \E i \in 1..Len(Frame(tables, t)) :
          LET s == Frame(tables, t)[i]
              qual == Qualifying(t, s)
          IN \E j1, j2 \in qual :
                /\ j1 < j2
                /\ Cardinality(CommonOf(t, s.name, tables[j1].name))
                      < Cardinality(CommonOf(t, s.name, tables[j2].name))
                /\ \E k \in OutEdges(t, s.name) : fks[k].ref_table = tables[j1].name

-----------------------------------------------------------------------------
(* C13: Scenario B, a long text column *)

\* a text-like column "description" of 500-character strings with distinct
\* fraction 0.01
IsScenarioB(s) ==
    /\ s.name = "description"
    /\ s.dtype = "object"
    /\ Len(s.vals) > 0
    /\ \A i \in 1..Len(s.vals) : s.vals[i].kind = "str" /\ s.vals[i].len = 500
    /\ FracEq(unique_frac(s), Frac(1, 100))

ScenarioBColumns ==
    {tc \in UNION {{<<t, c>> : c \in ColumnNameSet(t)} : t \in TableNameSet} :
        IsScenarioB(Column(Frame(tables, tc[1]), tc[2]))}

\* C13, as claimed: the Scenario B column is classified bronze and its
\* recorded reason contains the text "long text/blob".
C13_Claimed_ReasonMentionsLongTextBlob ==
    pc = "classified" =>
        \A tc \in ScenarioBColumns :
            /\ classified[tc[1]][tc[2]].layer = "bronze"
            /\ Contains(Chars(classified[tc[1]][tc[2]].reason), Chars("long text/blob"))

\* C13, amended: the Scenario B column is classified bronze and its
\* recorded reason is the text "long_text_blob -> keep bronze".
C13_ScenarioBIsBronzeLongTextBlob ==
    pc = "classified" =>
        \A tc \in ScenarioBColumns :
            /\ classified[tc[1]][tc[2]].layer = "bronze"
            /\ classified[tc[1]][tc[2]].reason = "long_text_blob -> keep bronze"

\* a classification of a table set holding the Scenario B column
C13_Witness ==
    /\ pc = "classified"
    /\ ScenarioBColumns # {}

-----------------------------------------------------------------------------
(* C17: the absolute support of an edge *)

\* ceil(0.05 * n) and floor(0.05 * n)
Ceil5Pct(n) == (5 * n + 99) \div 100
Floor5Pct(n) == (5 * n) \div 100

SupportOf(e) == Cardinality(CommonOf(e.table, e.col, e.ref_table))

\* C17, as claimed: every edge has at least max(2, ceil(0.05 * |V|)) values
\* in common with the PK values of its target.
C17_Claimed_SupportAtLeastCeil ==
    Analyzed =>
        \A e \in EdgeSet :
            SupportOf(e) >= Max(2, Ceil5Pct(Cardinality(ValsOf(e.table, e.col))))

\* C17, amended: every edge has at least max(2, floor(0.05 * |V|)) values
\* in common with the PK values of its target, for every |V| and every
\* min_overlap.
C17_SupportAtLeastFloor ==
    Analyzed =>
        \A e \in EdgeSet :
            SupportOf(e) >= Max(2, Floor5Pct(Cardinality(ValsOf(e.table, e.col))))

\* an edge from a column of 41 distinct values with two values in common,
\* and a column of 60 distinct values that has no edge to a table it has
\* two values in common with, at an overlap above min_overlap
C17_Witness ==
    /\ Analyzed
    /\ \E e \in EdgeSet :
          /\ Cardinality(ValsOf(e.table, e.col)) = 41
          /\ SupportOf(e) = 2
    /\ \E t \in TableNameSet, r \in TableNameSet : \E c \in ColumnNameSet(t) :
          /\ pks[r] # None
          /\ Cardinality(ValsOf(t, c)) = 60
          /\ Cardinality(CommonOf(t, c, r)) = 2
          /\ 100 * 2 >= min_overlap * 60
          /\ OutEdges(t, c) = {}

-----------------------------------------------------------------------------
(* C19: the five classification rules *)

\* the quantities the rules of the claim read, for column c of table t
TextLike(s) == s.dtype = "object"
Numeric(s) == infer_column_type(s) \in {"INTEGER", "FLOAT"}
HasLongSample(s) == \E i \in 1..Len(Sample(s)) : Sample(s)[i].len > 200
BlobLike(s) == TextLike(s) /\ FracBelowPct(unique_frac(s), 2) /\ HasLongSample(s)

\* the tier by the five rules as the claim words them
ClaimedTier(t, s) ==
    IF BlobLike(s) THEN "bronze"
    ELSE IF pks[t] = s.name THEN "silver"
    ELSE IF OutEdges(t, s.name) # {} THEN "silver"
    ELSE IF FracBelowPct(null_pct(s), 50)
    THEN IF Numeric(s) /\ FracBelowPct(unique_frac(s), 20) THEN "gold" ELSE "silver"
    ELSE "bronze"

\* the dtype names rule 4 of the code is limited to
Rule4Kind(s) == DtypeHasAny(s.dtype, {"int", "float", "bool", "datetime", "object"})

\* the tier by the five rules, rule 4 limited to these dtype names
AmendedTier(t, s) ==
    IF BlobLike(s) THEN "bronze"
    ELSE IF pks[t] = s.name THEN "silver"
    ELSE IF OutEdges(t, s.name) # {} THEN "silver"
    ELSE IF FracBelowPct(null_pct(s), 50) /\ Rule4Kind(s)
    THEN IF Numeric(s) /\ FracBelowPct(unique_frac(s), 20) THEN "gold" ELSE "silver"
    ELSE "bronze"

-----------------------------------------------------------------------------
(* Properties of the materializers *)

\* the file a materializer wrote, by its out_dir
Written(layer) == (layer \o "/schema.sql") \in DOMAIN files
Batch(layer) == files[layer \o "/schema.sql"]

KindIdx(batch, kind) == {i \in 1..Len(batch) : batch[i].kind = kind}

ScenarioA ==
    tables = << [name |-> "customers", df |-> CustomersA],
                [name |-> "orders", df |-> OrdersA] >>

\* C12: on the tables of Scenario A the analysis gives the PKs customer_id
\* and order_id and the single edge orders.customer_id ->
\* customers.customer_id, and the bronze batch, written under the schema
\* bronze, has exactly two CREATE TABLE statements and exactly one ALTER
\* TABLE statement, which references bronze."customers".
C12_ScenarioA ==
    ScenarioA =>
        /\ pc # "loaded" =>
              /\ pks["customers"] = "customer_id"
              /\ pks["orders"] = "order_id"
              /\ fks = << [table |-> "orders", col |-> "customer_id",
                           ref_table |-> "customers", ref_col |-> "customer_id"] >>
        /\ (pc = "bronze" /\ Get(cfg.layer_schema_map, "bronze", "bronze") = "bronze") =>
              /\ Written("bronze")
              /\ Cardinality(KindIdx(Batch("bronze"), "CREATE TABLE")) = 2
              /\ Cardinality(KindIdx(Batch("bronze"), "ALTER TABLE")) = 1
              /\ \A i \in KindIdx(Batch("bronze"), "ALTER TABLE") :
                    /\ Batch("bronze")[i].ref_table = [schema |-> "bronze", name |-> "customers"]
                    /\ Batch("bronze")[i].table = [schema |-> "bronze", name |-> "orders"]
                    /\ Batch("bronze")[i].column = "customer_id"
                    /\ Batch("bronze")[i].ref_column = "customer_id"

\* the bronze batch of Scenario A, written with the default map
C12_Witness ==
    /\ ScenarioA
    /\ pc = "bronze"
    /\ Written("bronze")
    /\ cfg.layer_schema_map = DefaultLayerSchemaMap
    /\ Len(Batch("bronze")) = 6

-----------------------------------------------------------------------------
(* C14: the silver batch *)

\* the silver-classified columns of table t, in column order
SilverColumnsOf(t) ==
    SelectSeq(ColumnNames(Frame(tables, t)), LAMBDA c : classified[t][c].layer = "silver")

\* the names a batch creates, drops or alters
CreatedIn(batch) ==
    {batch[i].table.name : i \in KindIdx(batch, "CREATE TABLE") \cup KindIdx(batch, "DROP TABLE")
                                   \cup KindIdx(batch, "ALTER TABLE")}

\* the batch of the silver call that has just returned; empty if it wrote none
SilverBatch == IF Written("silver") THEN Batch("silver") ELSE << >>

\* C14: in the silver batch every table with a silver column has one CREATE
\* TABLE holding exactly its silver-classified columns; a table without
\* silver columns has no DROP, CREATE or ALTER statement of its own; and an
\* ALTER statement whose target is outside the batch references it under
\* the schema the layer map gives bronze.
C14_SilverBatch ==
    pc = "silver" =>
        /\ \A t \in TableNameSet :
              LET creates == {i \in KindIdx(SilverBatch, "CREATE TABLE") :
                                 SilverBatch[i].table.name = t}
              IN IF SilverColumnsOf(t) = << >>
                 THEN t \notin CreatedIn(SilverBatch)
                 ELSE /\ Cardinality(creates) = 1
                      /\ \A i \in creates :
                            [k \in 1..Len(SilverBatch[i].columns) |->
                                SilverBatch[i].columns[k].name] = SilverColumnsOf(t)
        /\ CreatedIn(SilverBatch) \subseteq TableNameSet
        /\ \A i \in KindIdx(SilverBatch, "ALTER TABLE") :
              SilverColumnsOf(SilverBatch[i].ref_table.name) = << >> =>
                 /\ "bronze" \in DOMAIN cfg.layer_schema_map
                 /\ SilverBatch[i].ref_table =
                       IdentIn(cfg.layer_schema_map["bronze"], SilverBatch[i].ref_table.name)

\* a silver batch written with the default map over a table without silver
\* columns that is the target of an emitted ALTER statement, the batch
\* holding a table only some of whose columns are silver
C14_Witness ==
    /\ pc = "silver"
    /\ Written("silver")
    /\ cfg.layer_schema_map = DefaultLayerSchemaMap
    /\ \E i \in KindIdx(SilverBatch, "ALTER TABLE") :
          /\ SilverColumnsOf(SilverBatch[i].ref_table.name) = << >>
          /\ SilverBatch[i].ref_table.schema = "bronze"
    /\ \E t \in TableNameSet :
          /\ SilverColumnsOf(t) # << >>
          /\ Len(SilverColumnsOf(t)) < Len(Frame(tables, t))


-----------------------------------------------------------------------------
(* The caller's tables across the stages                                   *)

\* cleaned_tables of the cleaning pass, computed from the tables as they are
CleanedTables ==
    [i \in 1..Len(tables) |->
        [name |-> tables[i].name,
         df |-> CleanFrame(tables[i].df, PkGet(pks, tables[i].name))]]

\* the silver batch the generator gives for the tables tbls
SilverBatchOf(tbls, c) ==
    generate_create_statements(SilverFrames(tbls, classify_columns(tbls, pks, fks)),
                               Analysis, c)

-----------------------------------------------------------------------------
(* C20: the gold batch *)

\* the batch of the gold call that has just returned; empty if it wrote none
GoldBatch == IF Written("gold") THEN Batch("gold") ELSE << >>

\* the tables with the largest row count
Largest == {t \in TableNameSet :
               \A u \in TableNameSet : RowCount(Frame(tables, u)) <= RowCount(Frame(tables, t))}

\* the first of them in the iteration order of tables
GoldFactTable == TableNamesOf(tables)[CHOOSE i \in 1..Len(tables) :
                             /\ tables[i].name \in Largest
                             /\ \A j \in 1..(i - 1) : tables[j].name \notin Largest]

\* the gold-classified columns of table t, in column order
GoldColumnsOf(t) ==
    SelectSeq(ColumnNames(Frame(tables, t)), LAMBDA c : classified[t][c].layer = "gold")

\* the name of the classified frame of table t
ClassifiedName(t) == IF t = GoldFactTable THEN "fact_" \o t ELSE "dim_" \o t

\* the derived artifacts of the tables and the columns each of them has
DerivedNames ==
    {n \in {"dim_customer"} : "customers" \in TableNameSet}
    \cup {n \in {"dim_product"} : "products" \in TableNameSet}
    \cup {n \in {"fact_sales"} : {"order_items", "orders"} \subseteq TableNameSet}

DerivedColumns(n) ==
    CASE n = "dim_customer" -> ColumnNames(Frame(tables, "customers"))
      [] n = "dim_product" -> ColumnNames(Frame(tables, "products"))
      [] n = "fact_sales" -> <<"order_id", "line_amount">>

\* the column names of the CREATE TABLE statements of name n in the batch
CreatedColumns(batch, n) ==
    {[k \in 1..Len(batch[i].columns) |-> batch[i].columns[k].name] :
        i \in {j \in KindIdx(batch, "CREATE TABLE") : batch[j].table.name = n}}

\* C20 as claimed: after a gold call the batch creates fact_<F> for the
\* first largest table F and dim_<T> for every other table T, each with
\* the gold columns of its table, unless a derived artifact has that name,
\* and then with the columns of the derived artifact
C20_Claimed_FrameForEveryTable ==
    pc = "gold" =>
        \A t \in TableNameSet :
            CreatedColumns(GoldBatch, ClassifiedName(t)) =
                IF ClassifiedName(t) \in DerivedNames
                THEN {DerivedColumns(ClassifiedName(t))}
                ELSE {GoldColumnsOf(t)}

\* C20: after a gold call that returned, F being the first of the tables
\* with the largest row count, the batch creates fact_<F> and dim_<T> for
\* the other tables T exactly for the tables that have a gold column, with
\* these columns; where a derived artifact has the name of a classified
\* frame the table is created once, with the columns of the derived
\* artifact; and nothing else is created but the derived artifacts
C20_GoldBatch ==
    pc = "gold" =>
        /\ \A t \in TableNameSet :
              CreatedColumns(GoldBatch, ClassifiedName(t)) =
                  IF ClassifiedName(t) \in DerivedNames
                  THEN {DerivedColumns(ClassifiedName(t))}
                  ELSE IF GoldColumnsOf(t) = << >> THEN {}
                  ELSE {GoldColumnsOf(t)}
        /\ \A n \in CreatedIn(GoldBatch) :
              \/ n \in DerivedNames
              \/ \E t \in TableNameSet : n = ClassifiedName(t) /\ GoldColumnsOf(t) # << >>
        /\ \A n \in CreatedIn(GoldBatch) :
              Cardinality({i \in KindIdx(GoldBatch, "CREATE TABLE") :
                              GoldBatch[i].table.name = n}) = 1

\* a gold batch over two tables that tie for the largest row count, the
\* later of them a dimension whose classified frame has the name of a
\* derived artifact with other columns, and a third table without gold
\* columns
C20_Witness ==
    /\ pc = "gold"
    /\ Written("gold")
    /\ Cardinality(Largest) > 1
    /\ \E t \in TableNameSet \ {GoldFactTable} :
          /\ t \in Largest
          /\ GoldColumnsOf(t) # << >>
          /\ ClassifiedName(t) \in DerivedNames
          /\ DerivedColumns(ClassifiedName(t)) # GoldColumnsOf(t)
          /\ CreatedColumns(GoldBatch, ClassifiedName(t)) = {DerivedColumns(ClassifiedName(t))}
    /\ GoldColumnsOf(GoldFactTable) # << >>
    /\ \E t \in TableNameSet : GoldColumnsOf(t) = << >> /\ ClassifiedName(t) \notin DerivedNames


-----------------------------------------------------------------------------
(* C21: the derived fact_sales *)

\* C21 as claimed: a materialize_gold call on tables that hold order_items
\* and orders returns normally and has written the gold batch, whatever
\* columns the two tables and products have
C21_Claimed_FactSalesNeverRaises ==
    (/\ pc \in {"gold", "gold_raised"}
     /\ {"order_items", "orders"} \subseteq TableNameSet)
        => pc = "gold" /\ Written("gold")


-----------------------------------------------------------------------------
(* C24: the columns the silver batch references *)

\* the column names of the CREATE TABLE statement of table t in the batch
ColumnsCreated(batch, t) ==
    UNION {Range(cols) : cols \in CreatedColumns(batch, t)}

\* C24 as claimed: every ALTER TABLE statement of the silver batch names a
\* source column that the CREATE TABLE of its table in the batch holds,
\* and, when the referenced table is under the schema of the batch, a
\* referenced column that the CREATE TABLE of that table in the batch holds
C24_Claimed_SilverColumnsConsistent ==
    pc = "silver" =>
        \A i \in KindIdx(SilverBatch, "ALTER TABLE") :
            /\ SilverBatch[i].column \in ColumnsCreated(SilverBatch, SilverBatch[i].table.name)
            /\ (Truthy(cfg.schema_name) /\ SilverBatch[i].ref_table.schema = cfg.schema_name) =>
                  SilverBatch[i].ref_column \in
                      ColumnsCreated(SilverBatch, SilverBatch[i].ref_table.name)


-----------------------------------------------------------------------------
(* C25: the gold batch and the analysis *)

\* the names the gold frames of the tables can have
GoldFrameNames ==
    {ClassifiedName(t) : t \in TableNameSet} \cup DerivedNames \cup {"fact_sales_raw"}

\* C25: when none of the gold frame names is the name of an analyzed table,
\* the gold batch has no ALTER TABLE statement, and every column of every
\* CREATE TABLE in it is TEXT and not marked PRIMARY KEY, whatever types,
\* primary keys and edges the analysis holds
C25_GoldBatchIgnoresAnalysis ==
    (pc = "gold" /\ GoldFrameNames \cap TableNameSet = {}) =>
        /\ KindIdx(GoldBatch, "ALTER TABLE") = {}
        /\ \A i \in KindIdx(GoldBatch, "CREATE TABLE") :
              \A k \in 1..Len(GoldBatch[i].columns) :
                  /\ GoldBatch[i].columns[k].sql_type = "TEXT"
                  /\ ~GoldBatch[i].columns[k].primary_key

\* a gold batch that creates a classified frame with a column the analysis
\* types INTEGER and a derived frame holding the primary key of its table,
\* over tables with an edge between them
C25_Witness ==
    /\ pc = "gold"
    /\ Written("gold")
    /\ GoldFrameNames \cap TableNameSet = {}
    /\ fks # << >>
    /\ \E t \in TableNameSet :
          /\ GoldColumnsOf(t) # << >>
          /\ CreatedColumns(GoldBatch, ClassifiedName(t)) = {GoldColumnsOf(t)}
          /\ \E c \in Range(GoldColumnsOf(t)) : Analysis.types[t][c] = "INTEGER"
    /\ \E i \in KindIdx(GoldBatch, "CREATE TABLE") :
          /\ GoldBatch[i].table.name = "dim_customer"
          /\ PkGet(pks, "customers") # None
          /\ \E k \in 1..Len(GoldBatch[i].columns) :
                GoldBatch[i].columns[k].name = PkGet(pks, "customers")


-----------------------------------------------------------------------------
(* C23: the DDL file of main *)

\* the statements main has saved to args.out
FlatBatch == files["model.sql"]

\* the statements of the batch that are of kind `kind` for table t
FlatOf(kind, t) == {i \in KindIdx(FlatBatch, kind) : FlatBatch[i].table.name = t}

\* C23: in the file main writes from one generate_create_statements call
\* per schema of the table-level layers, every analyzed table has exactly
\* one CREATE TABLE, every edge of the analysis has exactly one ALTER TABLE
\* and there is no other ALTER TABLE, and the identifier an ALTER TABLE
\* references is the identifier of the CREATE TABLE of the referenced
\* table, for the default, a partial and a full layer map
C23_FlatBatchConsistent ==
    ("model.sql" \in DOMAIN files) =>
        /\ \A t \in TableNameSet : Cardinality(FlatOf("CREATE TABLE", t)) = 1
        /\ \A i \in KindIdx(FlatBatch, "CREATE TABLE") : FlatBatch[i].table.name \in TableNameSet
        /\ \A e \in 1..Len(fks) :
              Cardinality({i \in FlatOf("ALTER TABLE", fks[e].table) :
                              /\ FlatBatch[i].column = fks[e].col
                              /\ FlatBatch[i].ref_table.name = fks[e].ref_table
                              /\ FlatBatch[i].ref_column = fks[e].ref_col}) = 1
        /\ Cardinality(KindIdx(FlatBatch, "ALTER TABLE")) = Len(fks)
        /\ \A i \in KindIdx(FlatBatch, "ALTER TABLE") :
              /\ \A j \in FlatOf("CREATE TABLE", FlatBatch[i].ref_table.name) :
                    FlatBatch[j].table = FlatBatch[i].ref_table
              /\ \A j \in FlatOf("CREATE TABLE", FlatBatch[i].table.name) :
                    FlatBatch[j].table = FlatBatch[i].table

\* a file written under a partial layer map from more than one group, with
\* an ALTER TABLE from a table of the mapped schema to a table of a layer
\* the map does not hold, which is referenced without schema
C23_Witness ==
    /\ "model.sql" \in DOMAIN files
    /\ ~args.layer_schema_map.none
    /\ Len(args.layer_schema_map.pairs) = 1
    /\ Cardinality(KindIdx(FlatBatch, "CREATE SCHEMA")) = 1
    /\ \E i \in KindIdx(FlatBatch, "ALTER TABLE") :
          /\ FlatBatch[i].table.schema = "clean"
          /\ FlatBatch[i].ref_table.schema = None
          /\ FlatOf("CREATE TABLE", FlatBatch[i].ref_table.name) # {}
    /\ \E i \in KindIdx(FlatBatch, "CREATE TABLE") : FlatBatch[i].table.schema = None


-----------------------------------------------------------------------------
(* C22: a failed render_erd *)

\* main has returned or an exception has left it
Ended == pc \in {"done", "raised"}

\* the call of main recorded under `name`, returned or raised
Ran(name) == \E i \in 1..Len(ran) : ran[i] \in {name, name \o ":raised"}

\* the optional calls the command line asks for, in the order of main
Requested ==
    (IF Truthy(args.star) THEN <<"convert_to_star_schema">> ELSE << >>)
    \o (IF Truthy(args.langgraph) THEN <<"build_langgraph_model">> ELSE << >>)
    \o (IF args.materialize_bronze THEN <<"materialize_bronze">> ELSE << >>)
    \o (IF args.materialize_silver THEN <<"materialize_silver">> ELSE << >>)
    \o (IF args.materialize_gold THEN <<"materialize_gold">> ELSE << >>)

\* the calls made after the first three, a raised call under its name
AfterCatalog ==
    [k \in 1..(Len(ran) - 3) |->
        IF ran[k + 3] = "convert_to_star_schema:raised" THEN "convert_to_star_schema"
        ELSE IF ran[k + 3] = "materialize_gold:raised" THEN "materialize_gold"
        ELSE ran[k + 3]]

\* render_erd is attempted only after the DDL file is written; and a run in
\* which it raised has gone on to save the catalog
RenderFailureKept ==
    /\ Ran("render_erd") => (ran[1] = "save_sql" /\ "model.sql" \in DOMAIN files)
    /\ (Ended /\ Len(ran) >= 2 /\ ran[2] = "render_erd:raised") =>
          /\ Len(ran) >= 3 /\ ran[3] = "save_catalog"
          /\ "catalog.json" \in DOMAIN files

=============================================================================
